---- MODULE Spec2Model ----
(***************************************************************************)
(* Model of the neighbourhood server: the room / membership store, the     *)
(* three access guards of permissions.py, the code generator of utils.py,  *)
(* and of main.py the room lifecycle handlers, the handlers of tasks,      *)
(* shopping items and cleaning schedules, the sending and the plain fetch  *)
(* of messages and the long poll.                                          *)
(*                                                                         *)
(* Every handler runs in its own worker thread with its own session, so a  *)
(* handler that reads and then writes is two steps: the reads and guards   *)
(* (up to the first raise or the first write), then the write and commit.  *)
(* A request between the two steps is an element of the bag `inflight`;    *)
(* `workers` is the number of requests the server handles at a time.       *)
(* When `observed` is set, the response of a request is held in `last`     *)
(* until it has been returned to the client, and no other step is taken    *)
(* in between: `last` then shows the response in the state it was made in. *)
(***************************************************************************)
EXTENDS Integers, FiniteSets, Sequences, Bags, TLC

VARIABLES
    rooms,              \* table rooms: set of [id, code, created_by]
    room_members,       \* table room_members: set of [id, room_id, user_id, role, is_banned]
    messages,           \* table messages: set of [id, room_id, sender_id]
    tasks,              \* table tasks: set of [id, room_id, assignee_id, completed]
    shopping_items,     \* table shopping_items: set of [id, room_id, created_by, purchased]
    cleaning_schedule,  \* table cleaning_schedule: set of [id, room_id, user_id]
    next_id,            \* the auto-increment counter of table messages
    fk_enforced,        \* whether the engine enforces the declared foreign keys
    workers,            \* the number of requests handled at a time
    room_quota,         \* the number of room ids the engine hands out
    message_quota,      \* the number of message ids the engine hands out
    inflight,           \* bag of requests that passed their reads and have not written yet
    observed,           \* whether responses are recorded in `last`
    last,               \* the response being returned to the client
    probe,              \* the guard applied most recently and its outcome
    poll,               \* the poll_messages request in progress, or its response
    received,           \* per user, the largest message id a poll has returned to them
    delivered           \* per user, the messages the polls have returned to them

store == <<rooms, room_members, messages, tasks, shopping_items, cleaning_schedule>>
vars == <<rooms, room_members, messages, tasks, shopping_items, cleaning_schedule,
          next_id, fk_enforced, workers, room_quota, message_quota, inflight,
          observed, last, probe, poll, received, delivered>>

\* What no handler changes.
settings == <<fk_enforced, workers, room_quota, message_quota, observed, probe>>

\* What no handler but poll_messages changes.
config == <<settings, poll, received, delivered>>

----------------------------------------------------------------------------
(* Bounds of the model *)

NumUsers == 2
MaxRooms == 2
MaxRoomsConcurrent == 1
MaxMembers == 4
MaxMessages == 1
MaxInFlight == 2
MaxTasks == 2
MaxPollMessages == 3
MaxItems == 1
MaxSchedules == 1

Users == 1..NumUsers
RoomIds == 1..MaxRooms

----------------------------------------------------------------------------
(* models.py *)

OWNER == "owner"
ADMIN == "admin"
MEMBER == "member"
UserRole == {OWNER, ADMIN, MEMBER}

Room(id, code, created_by) ==
    [id |-> id, code |-> code, created_by |-> created_by]

\* role defaults to MEMBER and is_banned to False; the handlers that build a
\* RoomMember pass the role and leave is_banned to its default.
RoomMember(id, room_id, user_id, role) ==
    [id |-> id, room_id |-> room_id, user_id |-> user_id, role |-> role,
     is_banned |-> FALSE]

\* A row of table tasks; completed defaults to False (title and description
\* play no part in any decision).
Task(id, room_id, assignee_id) ==
    [id |-> id, room_id |-> room_id, assignee_id |-> assignee_id, completed |-> FALSE]

Message(id, room_id, sender_id) ==
    [id |-> id, room_id |-> room_id, sender_id |-> sender_id]

ShoppingItem(id, room_id, created_by) ==
    [id |-> id, room_id |-> room_id, created_by |-> created_by, purchased |-> FALSE]

CleaningSchedule(id, room_id, user_id) ==
    [id |-> id, room_id |-> room_id, user_id |-> user_id]

----------------------------------------------------------------------------
(* Room codes: utils.py and str.upper() *)

CodeLength == 6

\* The characters of the model: two of string.ascii_uppercase + string.digits
\* that the generator draws from, one more uppercase letter and one lowercase
\* letter that only a client can type.
GeneratorChars == {"A", "7"}

\* random.choices(...): the draw is kept to the codes that differ in their
\* first character, so that the code space is small enough to be exhausted.
RandomCodes ==
    {c \in [1..CodeLength -> GeneratorChars] : \A i \in 2..CodeLength : c[i] = "A"}

upper_char(ch) == CASE ch = "a" -> "A" [] ch = "b" -> "B" [] OTHER -> ch

\* str.upper()
upper(code) == [i \in DOMAIN code |-> upper_char(code[i])]

lower_char(ch) == CASE ch = "A" -> "a" [] ch = "B" -> "b" [] OTHER -> ch

\* What a client may send as join_data.code: every generated code as it is,
\* all in lower case, with only its last character in lower case, and a
\* well-formed code that no room can have.
JoinCodes ==
    RandomCodes
    \cup {[i \in DOMAIN c |-> lower_char(c[i])] : c \in RandomCodes}
    \cup {[c EXCEPT ![CodeLength] = lower_char(c[CodeLength])] : c \in RandomCodes}
    \cup {[i \in 1..CodeLength |-> "B"]}

----------------------------------------------------------------------------
(* Responses *)

Response(status, detail) == [status |-> status, detail |-> detail]

Ok(detail) == Response(200, detail)
Created == Response(201, "created")
ServerError == Response(500, "Internal Server Error")

NoCode == <<>>

NoRequest ==
    [op |-> "none", user |-> 0, room |-> 0, target |-> 0, code |-> NoCode,
     status |-> 0, detail |-> ""]

\* The response `resp` of request `op` by `user` on room `room`; `target` is
\* the user_id of a ban, unban or kick request and `code` the code of a join
\* request.
Respond(op, user, room, target, code, resp) ==
    last' = IF observed
            THEN [op |-> op, user |-> user, room |-> room, target |-> target,
                  code |-> code, status |-> resp.status, detail |-> resp.detail]
            ELSE last

\* A request that has done its reads: what its write needs (`row` is the row
\* its query loaded, as it was when loaded).
Pending(op, user, room, pc, code, row) ==
    [op |-> op, user |-> user, room |-> room, pc |-> pc, code |-> code, row |-> row]

\* The user_id of a ban, unban or kick request in flight, the task_id of an
\* update_task or delete_task request.
target_of(p) ==
    IF p.op \in {"ban", "unban", "kick"} THEN p.row.user_id
    ELSE IF p.op \in {"update_task", "delete_task"} THEN p.row.id
    ELSE 0

\* No response is on its way to the client.
returned == last = NoRequest

\* A request is taken up when a worker is free.
worker_free == returned /\ BagCardinality(inflight) < workers

Begin(p) == inflight' = inflight (+) SetToBag({p})

Finish(p) == inflight' = inflight (-) SetToBag({p})

InFlight == BagToSet(inflight)

\* The requests in flight that can take their next step.
Runnable == IF returned THEN InFlight ELSE {}

----------------------------------------------------------------------------
(* permissions.py *)

\* db.query(RoomMember).filter(user_id, room_id): the rows the filter keeps.
MemberRows(user_id, room_id) ==
    {m \in room_members : m.user_id = user_id /\ m.room_id = room_id}

NotMember == "none"
BanFailure == Response(403, "You are banned from this room")
NotAMember == Response(403, "You are not a member of this room")
AdminRequired == Response(403, "Admin rights required")
OwnerRequired == Response(403, "Owner rights required")

\* The outcome of a guard: a role it returns, or the HTTPException it raises.
Returned(role) == [raised |-> FALSE, role |-> role, error |-> Response(0, "")]
Raised(error) == [raised |-> TRUE, role |-> NotMember, error |-> error]

\* .first() of a query without ORDER BY: the result is no row when the filter
\* keeps none, and otherwise any one of the rows it keeps.
NoRow == [id |-> <<0, 0, 0>>, room_id |-> 0, user_id |-> 0, role |-> NotMember, is_banned |-> FALSE]

first(rows) == IF rows = {} THEN {NoRow} ELSE rows

\* A faulty variant of role_of_membership, used to test C3: the role is
\* returned without a look at is_banned.
role_of_membership_ignoring_ban(membership) ==
    IF membership = NoRow THEN Returned(NotMember)
    ELSE Returned(membership.role)

\* get_user_room_role once .first() has returned `membership`.
role_of_membership(membership) ==
    IF membership = NoRow THEN Returned(NotMember)
    ELSE IF membership.is_banned THEN Raised(BanFailure)
    ELSE Returned(membership.role)

\* check_room_access on the outcome of get_user_room_role.
room_access_of(outcome) ==
    IF outcome.raised THEN outcome
    ELSE IF outcome.role = NotMember THEN Raised(NotAMember)
    ELSE outcome

\* check_admin_access on the outcome of check_room_access.
admin_access_of(outcome) ==
    IF outcome.raised THEN outcome
    ELSE IF outcome.role \notin {OWNER, ADMIN} THEN Raised(AdminRequired)
    ELSE outcome

\* check_owner_access on the outcome of check_room_access.
owner_access_of(outcome) ==
    IF outcome.raised THEN outcome
    ELSE IF outcome.role # OWNER THEN Raised(OwnerRequired)
    ELSE outcome

\* The outcomes each function can have on the current table.
get_user_room_role(user_id, room_id) ==
    {role_of_membership(m) : m \in first(MemberRows(user_id, room_id))}

check_room_access(user_id, room_id) ==
    {room_access_of(o) : o \in get_user_room_role(user_id, room_id)}

check_admin_access(user_id, room_id) ==
    {admin_access_of(o) : o \in check_room_access(user_id, room_id)}

check_owner_access(user_id, room_id) ==
    {owner_access_of(o) : o \in check_room_access(user_id, room_id)}

----------------------------------------------------------------------------
(* Initial state: empty tables *)

NoProbe == [fn |-> "none", user_id |-> 0, room_id |-> 0, membership |-> NoRow,
            outcome |-> Returned(NotMember)]

\* No poll is in progress.
NoPoll == [pc |-> "idle", user |-> 0, room |-> 0, last_message_id |-> 0,
           requested |-> 0, timeout |-> 0, elapsed |-> 0, queries |-> 0,
           status |-> 0, detail |-> "", result |-> <<>>]

NothingReceived == [u \in Users |-> 0]

NothingDelivered == [u \in Users |-> {}]

EmptyStore ==
    /\ rooms = {}
    /\ room_members = {}
    /\ messages = {}
    /\ tasks = {}
    /\ shopping_items = {}
    /\ cleaning_schedule = {}
    /\ next_id = [messages |-> 1]
    /\ inflight = EmptyBag
    /\ last = NoRequest
    /\ probe = NoProbe
    /\ poll = NoPoll
    /\ received = NothingReceived
    /\ delivered = NothingDelivered
    /\ message_quota = MaxMessages

\* The server with MaxInFlight workers, on an engine that enforces the
\* foreign keys or does not.
Init ==
    /\ EmptyStore
    /\ fk_enforced \in BOOLEAN
    /\ workers = MaxInFlight
    /\ room_quota = MaxRoomsConcurrent
    /\ observed = FALSE

----------------------------------------------------------------------------
(* The storage layer *)

RoomExists(room_id) == \E r \in rooms : r.id = room_id

\* An INSERT of a row that refers to room_id passes the foreign key
\* ForeignKey("rooms.id") when the engine does not enforce it or the room is there.
fk_ok(room_id) == ~fk_enforced \/ RoomExists(room_id)

\* The primary key of a new row is an id that nothing refers to. Ids are
\* only compared for equality, so the engine's counter is replaced by a
\* choice that depends on the table and the requests in flight alone: a
\* membership gets the pair of its (room_id, user_id) and the smallest number
\* that no row and no loaded row of that pair holds; a room gets the smallest
\* id that no row and no request refers to.
Smallest(ids) == CHOOSE i \in ids : \A j \in ids : i <= j

member_ids_in_use ==
    {m.id : m \in room_members} \cup {p.row.id : p \in InFlight}

new_member_id(room_id, user_id) ==
    <<room_id, user_id,
      Smallest({k \in 1..(MaxMembers + 1) :
                  <<room_id, user_id, k>> \notin member_ids_in_use})>>

\* The table room_members can take another row.
member_table_open == Cardinality(room_members) < MaxMembers

room_ids_in_use ==
    {r.id : r \in rooms} \cup {m.room_id : m \in room_members}
    \cup {x.room_id : x \in messages} \cup {x.room_id : x \in tasks}
    \cup {x.room_id : x \in shopping_items} \cup {x.room_id : x \in cleaning_schedule}
    \cup {p.room : p \in InFlight}

free_room_ids == (1..room_quota) \ room_ids_in_use

\* A failure of the storage layer in the write of an in-flight request: the
\* request ends with a 500 and what it committed before stays committed.
persistence_failure(p) ==
    /\ p \in Runnable
    /\ Finish(p)
    /\ Respond(p.op, p.user, p.room, target_of(p), p.code, ServerError)
    /\ UNCHANGED <<store, next_id, config>>

----------------------------------------------------------------------------
(* main.py: create_room *)

\* generate_room_code: the loop ends with a code that no room has.
generate_room_code == {c \in RandomCodes : ~\E r \in rooms : r.code = c}

\* line 238
create_room_generate(user) ==
    /\ worker_free
    /\ \E code \in generate_room_code :
         Begin(Pending("create_room", user, 0, "insert_room", code, NoRow))
    /\ UNCHANGED <<store, next_id, config, last>>

\* A faulty variant of create_room_insert_room, used to test C22: the column
\* code has no unique index, so the INSERT never fails.
create_room_insert_room_not_unique(p) ==
    /\ p \in Runnable
    /\ p.op = "create_room" /\ p.pc = "insert_room"
    /\ free_room_ids # {}
    /\ LET id == Smallest(free_room_ids) IN
       /\ rooms' = rooms \cup {Room(id, p.code, p.user)}
       /\ inflight' = (inflight (-) SetToBag({p})) (+)
              SetToBag({[p EXCEPT !.pc = "insert_owner", !.room = id]})
    /\ UNCHANGED <<room_members, messages, tasks, shopping_items,
                   cleaning_schedule, last>>
    /\ UNCHANGED <<next_id, config>>

\* lines 239-242: Room.code is unique, so the INSERT fails when a room
\* committed since the generation holds the code.
create_room_insert_room(p) ==
    /\ p \in Runnable
    /\ p.op = "create_room" /\ p.pc = "insert_room"
    /\ IF \E r \in rooms : r.code = p.code
       THEN /\ Finish(p)
            /\ Respond(p.op, p.user, 0, 0, p.code, ServerError)
            /\ UNCHANGED store
       ELSE /\ free_room_ids # {}
            /\ LET id == Smallest(free_room_ids) IN
               /\ rooms' = rooms \cup {Room(id, p.code, p.user)}
               /\ inflight' = (inflight (-) SetToBag({p})) (+)
                      SetToBag({[p EXCEPT !.pc = "insert_owner", !.room = id]})
            /\ UNCHANGED <<room_members, messages, tasks, shopping_items,
                           cleaning_schedule, last>>
    /\ UNCHANGED <<next_id, config>>

\* The membership create_room builds (line 244).
owner_membership(id, room_id, user_id) == RoomMember(id, room_id, user_id, OWNER)

\* lines 244-255
create_room_insert_owner(p) ==
    /\ p \in Runnable
    /\ p.op = "create_room" /\ p.pc = "insert_owner"
    /\ member_table_open
    /\ Finish(p)
    /\ IF fk_ok(p.room)
       THEN /\ room_members' = room_members \cup
                   {owner_membership(new_member_id(p.room, p.user), p.room, p.user)}
            /\ Respond(p.op, p.user, p.room, target_of(p), p.code, Created)
       ELSE /\ Respond(p.op, p.user, p.room, target_of(p), p.code, ServerError)
            /\ UNCHANGED room_members
    /\ UNCHANGED <<rooms, messages, tasks, shopping_items, cleaning_schedule,
                   next_id, config>>

----------------------------------------------------------------------------
(* utils.py: generate_room_code, one turn of its loop at a time *)

\* main.py line 238: create_room calls the generator.
create_room_start(user) ==
    /\ worker_free
    /\ Begin(Pending("create_room", user, 0, "draw", NoCode, NoRow))
    /\ UNCHANGED <<store, next_id, config, last>>

\* The step of request p from where it is to `pc` with `code` in hand.
generator_step(p, pc, code) ==
    inflight' = (inflight (-) SetToBag({p})) (+)
                  SetToBag({[p EXCEPT !.pc = pc, !.code = code]})

\* line 8: random.choices draws any code of the code space.
generate_room_code_draw(p) ==
    /\ p \in Runnable
    /\ p.op = "create_room" /\ p.pc = "draw"
    /\ \E code \in RandomCodes : generator_step(p, "query", code)
    /\ UNCHANGED <<store, next_id, config, last>>

\* A faulty variant of generate_room_code_query, used to test C25: a
\* collision ends the request with an error.
generate_room_code_query_failing(p) ==
    /\ p \in Runnable
    /\ p.op = "create_room" /\ p.pc = "query"
    /\ IF \E r \in rooms : r.code = p.code
       THEN /\ Finish(p)
            /\ Respond(p.op, p.user, 0, 0, p.code, ServerError)
       ELSE /\ generator_step(p, "insert_room", p.code)
            /\ UNCHANGED last
    /\ UNCHANGED <<store, next_id, config>>

\* lines 9-11: the code is returned when no room has it, and the loop takes
\* another turn when a room has it.
generate_room_code_query(p) ==
    /\ p \in Runnable
    /\ p.op = "create_room" /\ p.pc = "query"
    /\ IF \E r \in rooms : r.code = p.code
       THEN generator_step(p, "draw", p.code)
       ELSE generator_step(p, "insert_room", p.code)
    /\ UNCHANGED <<store, next_id, config, last>>

\* line 8, when the draw is a code that no room has.
generate_room_code_draw_unused(p) ==
    /\ generate_room_code_draw(p)
    /\ \E q \in BagToSet(inflight') : q.pc = "query" /\ q.code \in generate_room_code

----------------------------------------------------------------------------
(* main.py: join_room *)

RoomNotFound == Response(404, "Room not found")
Banned == Response(403, "You are banned from this room")
AlreadyMember == Response(400, "Already a member")

\* line 285: the rooms the lookup keeps.
rooms_by_code(code) == {r \in rooms : r.code = upper(code)}

NoRoom == Room(0, NoCode, 0)

\* A faulty variant of join_decision, used to test C9: a banned membership
\* is reported as "Already a member".
join_decision_ignoring_ban(room, existing) ==
    IF room = NoRoom THEN RoomNotFound
    ELSE IF existing # NoRow THEN AlreadyMember
    ELSE Ok("join")

\* What join_room decides once its two queries have returned `room` and
\* `existing` (lines 286-297): the error it raises, or Ok to go on to the insert.
join_decision(room, existing) ==
    IF room = NoRoom THEN RoomNotFound
    ELSE IF existing # NoRow THEN (IF existing.is_banned THEN Banned ELSE AlreadyMember)
    ELSE Ok("join")

\* lines 285-297
join_room_check(user, code) ==
    /\ worker_free
    /\ \E room \in IF rooms_by_code(code) = {} THEN {NoRoom} ELSE rooms_by_code(code) :
       \E existing \in first(MemberRows(user, room.id)) :
         LET decision == join_decision(room, existing) IN
         IF decision.status # 200
         THEN /\ Respond("join", user, room.id, 0, code, decision)
              /\ UNCHANGED inflight
         ELSE /\ Begin(Pending("join", user, room.id, "insert", code, NoRow))
              /\ UNCHANGED last
    /\ UNCHANGED <<store, next_id, config>>

\* The membership join_room builds (line 299).
joined_membership(id, room_id, user_id) == RoomMember(id, room_id, user_id, MEMBER)

\* lines 299-315
join_room_insert(p) ==
    /\ p \in Runnable
    /\ p.op = "join"
    /\ member_table_open
    /\ Finish(p)
    /\ IF fk_ok(p.room)
       THEN /\ room_members' = room_members \cup
                   {joined_membership(new_member_id(p.room, p.user), p.room, p.user)}
            /\ Respond(p.op, p.user, p.room, target_of(p), p.code, Ok("joined"))
       ELSE /\ Respond(p.op, p.user, p.room, target_of(p), p.code, ServerError)
            /\ UNCHANGED room_members
    /\ UNCHANGED <<rooms, messages, tasks, shopping_items, cleaning_schedule,
                   next_id, config>>

----------------------------------------------------------------------------
(* main.py: delete_room *)

\* line 319
delete_room_check(user, room_id) ==
    /\ worker_free
    /\ \E access \in check_owner_access(user, room_id) :
         IF access.raised
         THEN /\ Respond("delete_room", user, room_id, 0, NoCode, access.error)
              /\ UNCHANGED inflight
         ELSE /\ Begin(Pending("delete_room", user, room_id, "delete", NoCode, NoRow))
              /\ UNCHANGED last
    /\ UNCHANGED <<store, next_id, config>>

\* The rows of `table` that the cascade of Room's relationships (models.py,
\* cascade="all, delete-orphan") leaves when room `room_id` is deleted.
cascade_delete(table, room_id) == {x \in table : x.room_id # room_id}

\* lines 320-323: db.delete(None) raises when the room is gone.
delete_room_delete(p) ==
    /\ p \in Runnable
    /\ p.op = "delete_room"
    /\ Finish(p)
    /\ IF RoomExists(p.room)
       THEN /\ rooms' = {r \in rooms : r.id # p.room}
            /\ room_members' = cascade_delete(room_members, p.room)
            /\ messages' = cascade_delete(messages, p.room)
            /\ tasks' = cascade_delete(tasks, p.room)
            /\ shopping_items' = cascade_delete(shopping_items, p.room)
            /\ cleaning_schedule' = cascade_delete(cleaning_schedule, p.room)
            /\ Respond(p.op, p.user, p.room, target_of(p), p.code, Ok("Room deleted"))
       ELSE /\ Respond(p.op, p.user, p.room, target_of(p), p.code, ServerError)
            /\ UNCHANGED store
    /\ UNCHANGED <<next_id, config>>

----------------------------------------------------------------------------
(* main.py: leave_room *)

LeaveNotAMember == Response(404, "Not a member")
OwnerCannotLeave == Response(400, "Owner cannot leave the room. Delete it instead.")

\* A faulty variant of leave_decision, used to test C10: the owner may leave.
leave_decision_owner_leaves(membership) ==
    IF membership = NoRow THEN LeaveNotAMember
    ELSE Ok("leave")

\* What leave_room decides once its query has returned `membership`
\* (lines 332-336).
leave_decision(membership) ==
    IF membership = NoRow THEN LeaveNotAMember
    ELSE IF membership.role = OWNER THEN OwnerCannotLeave
    ELSE Ok("leave")

\* lines 327-336
leave_room_check(user, room_id) ==
    /\ worker_free
    /\ \E membership \in first(MemberRows(user, room_id)) :
         LET decision == leave_decision(membership) IN
         IF decision.status # 200
         THEN /\ Respond("leave", user, room_id, 0, NoCode, decision)
              /\ UNCHANGED inflight
         ELSE /\ Begin(Pending("leave", user, room_id, "delete", NoCode, membership))
              /\ UNCHANGED last
    /\ UNCHANGED <<store, next_id, config>>

\* DELETE of the row a query loaded: of the row with its id, if it is still there.
delete_row(table, row) == {x \in table : x.id # row.id}

\* lines 338-340
leave_room_delete(p) ==
    /\ p \in Runnable
    /\ p.op = "leave"
    /\ Finish(p)
    /\ room_members' = delete_row(room_members, p.row)
    /\ Respond(p.op, p.user, p.room, target_of(p), p.code, Ok("Left the room"))
    /\ UNCHANGED <<rooms, messages, tasks, shopping_items, cleaning_schedule,
                   next_id, config>>

----------------------------------------------------------------------------
(* main.py: ban_user, unban_user, kick_user *)

UserNotFound == Response(404, "User not found in room")
CannotBanOwner == Response(400, "Cannot ban owner")
CannotKickOwner == Response(400, "Cannot kick owner")

\* Faulty variants of ban_decision and kick_decision, used to test C11 and
\* C14: the owner can be banned, or kicked.
ban_decision_owner_allowed(membership) ==
    IF membership = NoRow THEN UserNotFound ELSE Ok("ban")

kick_decision_owner_allowed(membership) ==
    IF membership = NoRow THEN UserNotFound ELSE Ok("kick")

\* A faulty variant of unban_decision, used to test C12: a row that is not
\* banned counts as absent.
unban_decision_banned_only(membership) ==
    IF membership = NoRow \/ ~membership.is_banned THEN UserNotFound ELSE Ok("unban")

\* What ban_user (lines 368-372), unban_user (387-388) and kick_user (403-407)
\* decide once the query for the target has returned `membership`.
ban_decision(membership) ==
    IF membership = NoRow THEN UserNotFound
    ELSE IF membership.role = OWNER THEN CannotBanOwner
    ELSE Ok("ban")

unban_decision(membership) ==
    IF membership = NoRow THEN UserNotFound ELSE Ok("unban")

kick_decision(membership) ==
    IF membership = NoRow THEN UserNotFound
    ELSE IF membership.role = OWNER THEN CannotKickOwner
    ELSE Ok("kick")

target_decision(op, membership) ==
    CASE op = "ban" -> ban_decision(membership)
      [] op = "unban" -> unban_decision(membership)
      [] op = "kick" -> kick_decision(membership)

\* A faulty variant of moderation_guard, used to test C4: any member passes.
moderation_guard_any_member(user, room_id) == check_room_access(user, room_id)

\* The guard ban_user, unban_user and kick_user call first (lines 361, 380, 396).
moderation_guard(user, room_id) == check_owner_access(user, room_id)

\* lines 361-372, 380-388, 396-407
moderation_check(op, user, room_id, user_id) ==
    /\ worker_free
    /\ \E access \in moderation_guard(user, room_id) :
         IF access.raised
         THEN /\ Respond(op, user, room_id, user_id, NoCode, access.error)
              /\ UNCHANGED inflight
         ELSE \E membership \in first(MemberRows(user_id, room_id)) :
                LET decision == target_decision(op, membership) IN
                IF decision.status # 200
                THEN /\ Respond(op, user, room_id, user_id, NoCode, decision)
                     /\ UNCHANGED inflight
                ELSE /\ Begin(Pending(op, user, room_id, "write", NoCode, membership))
                     /\ UNCHANGED last
    /\ UNCHANGED <<store, next_id, config>>

ban_user_check(user, room_id, user_id) == moderation_check("ban", user, room_id, user_id)

unban_user_check(user, room_id, user_id) == moderation_check("unban", user, room_id, user_id)

kick_user_check(user, room_id, user_id) == moderation_check("kick", user, room_id, user_id)

\* membership.is_banned = value; db.commit(): the session writes the attribute
\* when it differs from the value loaded, with an UPDATE of the row with the
\* loaded id, and raises StaleDataError when that row is gone.
set_is_banned(p, value) ==
    IF p.row.is_banned = value
    THEN /\ UNCHANGED room_members
         /\ Respond(p.op, p.user, p.room, target_of(p), p.code, Ok(p.op))
    ELSE IF \E m \in room_members : m.id = p.row.id
    THEN /\ room_members' =
                {IF m.id = p.row.id THEN [m EXCEPT !.is_banned = value] ELSE m :
                   m \in room_members}
         /\ Respond(p.op, p.user, p.room, target_of(p), p.code, Ok(p.op))
    ELSE /\ UNCHANGED room_members
         /\ Respond(p.op, p.user, p.room, target_of(p), p.code, ServerError)

\* lines 374-376
ban_user_write(p) ==
    /\ p \in Runnable
    /\ p.op = "ban"
    /\ Finish(p)
    /\ set_is_banned(p, TRUE)
    /\ UNCHANGED <<rooms, messages, tasks, shopping_items, cleaning_schedule,
                   next_id, config>>

\* lines 390-392
unban_user_write(p) ==
    /\ p \in Runnable
    /\ p.op = "unban"
    /\ Finish(p)
    /\ set_is_banned(p, FALSE)
    /\ UNCHANGED <<rooms, messages, tasks, shopping_items, cleaning_schedule,
                   next_id, config>>

\* A faulty variant of kick_user_write, used to test C13: the row is kept
\* and banned.
kick_user_write_keeps_row(p) ==
    /\ p \in Runnable
    /\ p.op = "kick"
    /\ Finish(p)
    /\ room_members' =
         {IF m.id = p.row.id THEN [m EXCEPT !.is_banned = TRUE] ELSE m : m \in room_members}
    /\ Respond(p.op, p.user, p.room, target_of(p), p.code, Ok("User kicked"))
    /\ UNCHANGED <<rooms, messages, tasks, shopping_items, cleaning_schedule,
                   next_id, config>>

\* lines 409-411
kick_user_write(p) ==
    /\ p \in Runnable
    /\ p.op = "kick"
    /\ Finish(p)
    /\ room_members' = delete_row(room_members, p.row)
    /\ Respond(p.op, p.user, p.room, target_of(p), p.code, Ok("User kicked"))
    /\ UNCHANGED <<rooms, messages, tasks, shopping_items, cleaning_schedule,
                   next_id, config>>

----------------------------------------------------------------------------
(* main.py: create_message *)

\* line 568
create_message_check(user, room_id) ==
    /\ worker_free
    /\ next_id.messages <= message_quota
    /\ \E access \in check_room_access(user, room_id) :
         IF access.raised
         THEN /\ Respond("create_message", user, room_id, 0, NoCode, access.error)
              /\ UNCHANGED inflight
         ELSE /\ Begin(Pending("create_message", user, room_id, "insert", NoCode, NoRow))
              /\ UNCHANGED last
    /\ UNCHANGED <<store, next_id, config>>

\* lines 569-573
create_message_insert(p) ==
    /\ p \in Runnable
    /\ p.op = "create_message"
    /\ next_id.messages <= message_quota
    /\ Finish(p)
    /\ IF fk_ok(p.room)
       THEN /\ messages' = messages \cup {Message(next_id.messages, p.room, p.user)}
            /\ next_id' = [next_id EXCEPT !.messages = @ + 1]
            /\ Respond(p.op, p.user, p.room, target_of(p), p.code, Created)
       ELSE /\ Respond(p.op, p.user, p.room, target_of(p), p.code, ServerError)
            /\ UNCHANGED <<messages, next_id>>
    /\ UNCHANGED <<rooms, room_members, tasks, shopping_items, cleaning_schedule,
                   config>>

----------------------------------------------------------------------------
(* main.py: poll_messages *)

\* poll_messages is a coroutine on the event loop: it takes no worker thread,
\* and between two of its steps the handlers in the worker threads take theirs.
\* Time is counted in ticks of one retry interval, asyncio.sleep(0.5): a
\* second has TicksPerSecond ticks. Time passes in the sleep; the queries
\* take none.
TicksPerSecond == 2

MaxTimeout == 30

\* A faulty variant of clamp_timeout, used to test C17: the timeout the
\* client asks for is taken as it is.
clamp_timeout_unclamped(timeout) == timeout

\* line 584
clamp_timeout(timeout) == IF timeout < MaxTimeout THEN timeout ELSE MaxTimeout

\* created_at is set when the row is inserted; the rows are inserted one at
\* a time and get increasing ids, so the order of the inserts is the order
\* of the ids.
created_at(message) == message.id

RECURSIVE order_by_created_at(_)
order_by_created_at(rows) ==
    IF rows = {} THEN <<>>
    ELSE LET x == CHOOSE x \in rows : \A y \in rows : created_at(x) <= created_at(y)
         IN  <<x>> \o order_by_created_at(rows \ {x})

\* A faulty variant of new_messages, used to test C16: the filter on the
\* room is missing.
new_messages_of_any_room(room_id, last_message_id) ==
    order_by_created_at(
      {x \in messages : last_message_id > 0 => x.id > last_message_id})

\* A faulty variant of new_messages, used to test C19: the message with the
\* id of the cursor is returned again.
new_messages_from_cursor(room_id, last_message_id) ==
    order_by_created_at(
      {x \in messages :
         /\ x.room_id = room_id
         /\ last_message_id > 0 => x.id >= last_message_id})

\* lines 588-592: the query sees what is committed when it runs.
new_messages(room_id, last_message_id) ==
    order_by_created_at(
      {x \in messages :
         /\ x.room_id = room_id
         /\ last_message_id > 0 => x.id > last_message_id})

\* The response of the poll: poll_messages has returned or raised.
poll_done(status, detail, result) ==
    poll' = [poll EXCEPT !.pc = "done", !.status = status, !.detail = detail,
                         !.result = result]

\* A faulty variant of poll_entry, used to test C20: the poll starts without
\* a look at the caller's membership.
poll_entry_unchecked(user, room_id) == {Returned(MEMBER)}

\* line 583
poll_entry(user, room_id) == check_room_access(user, room_id)

\* lines 583-585: the guard, the clamp and the start of the clock.
poll_start(user, room_id, last_message_id, timeout) ==
    /\ returned
    /\ poll = NoPoll
    /\ \E access \in poll_entry(user, room_id) :
         poll' = [NoPoll EXCEPT
                    !.pc = IF access.raised THEN "done" ELSE "query",
                    !.user = user, !.room = room_id,
                    !.last_message_id = last_message_id,
                    !.requested = timeout,
                    !.timeout = clamp_timeout(timeout),
                    !.status = IF access.raised THEN access.error.status ELSE 0,
                    !.detail = IF access.raised THEN access.error.detail ELSE ""]
    /\ UNCHANGED <<store, next_id, settings, inflight, last, received, delivered>>

\* A faulty variant of poll_query, used to test C18: the session keeps the
\* rows of its first query, so a poll that has slept sees no new message.
poll_query_cached ==
    /\ poll.pc = "query"
    /\ LET found == IF poll.queries = 0
                    THEN new_messages(poll.room, poll.last_message_id) ELSE <<>>
       IN  IF found # <<>>
           THEN poll_done(200, "messages", found)
           ELSE IF poll.elapsed >= poll.timeout * TicksPerSecond
           THEN poll_done(200, "empty", <<>>)
           ELSE poll' = [poll EXCEPT !.pc = "sleep", !.queries = 1]
    /\ UNCHANGED <<store, next_id, settings, inflight, last, received, delivered>>

\* lines 588-599: one turn of the loop up to the sleep. `queries` tells
\* whether the poll has made no query yet (0) or has (1).
poll_query ==
    /\ poll.pc = "query"
    /\ LET found == new_messages(poll.room, poll.last_message_id) IN
       IF found # <<>>
       THEN poll_done(200, "messages", found)
       ELSE IF poll.elapsed >= poll.timeout * TicksPerSecond
       THEN poll_done(200, "empty", <<>>)
       ELSE poll' = [poll EXCEPT !.pc = "sleep", !.queries = 1]
    /\ UNCHANGED <<store, next_id, settings, inflight, last, received, delivered>>

\* lines 601-602: the sleep of one retry interval, then expire_all.
poll_sleep ==
    /\ poll.pc = "sleep"
    /\ poll' = [poll EXCEPT !.pc = "query", !.elapsed = @ + 1]
    /\ UNCHANGED <<store, next_id, settings, inflight, last, received, delivered>>

largest_id(result, least) ==
    IF result = <<>> THEN least
    ELSE LET top == result[Len(result)].id IN IF top > least THEN top ELSE least

\* The response reaches the client, which keeps the largest id it was sent.
poll_return ==
    /\ poll.pc = "done"
    /\ poll' = NoPoll
    /\ received' = [received EXCEPT ![poll.user] = largest_id(poll.result, @)]
    /\ UNCHANGED <<store, next_id, settings, inflight, last, delivered>>

----------------------------------------------------------------------------
(* main.py: create_message and poll_messages on an engine with concurrent
   writers *)

\* db.commit() of create_message is two statements: the INSERT, in which the
\* engine gives the row its id, and the COMMIT, after which the other
\* sessions see the row. On an engine that lets transactions write side by
\* side, the INSERT and COMMIT of one request can lie between those of
\* another.

\* line 571, the flush: the INSERT
create_message_flush(p) ==
    /\ p \in Runnable
    /\ p.op = "create_message" /\ p.pc = "insert"
    /\ next_id.messages <= message_quota
    /\ IF fk_ok(p.room)
       THEN /\ inflight' = (inflight (-) SetToBag({p})) (+)
                 SetToBag({[p EXCEPT !.pc = "commit",
                                     !.row = Message(next_id.messages, p.room, p.user)]})
            /\ next_id' = [next_id EXCEPT !.messages = @ + 1]
            /\ UNCHANGED last
       ELSE /\ Finish(p)
            /\ Respond(p.op, p.user, p.room, 0, p.code, ServerError)
            /\ UNCHANGED next_id
    /\ UNCHANGED <<store, config>>

\* lines 571-573: the COMMIT and the response
create_message_commit(p) ==
    /\ p \in Runnable
    /\ p.op = "create_message" /\ p.pc = "commit"
    /\ Finish(p)
    /\ messages' = messages \cup {p.row}
    /\ Respond(p.op, p.user, p.room, 0, p.code, Created)
    /\ UNCHANGED <<rooms, room_members, tasks, shopping_items, cleaning_schedule,
                   next_id, config>>

\* The cursor of a client that keeps what it is sent: the largest id among
\* the messages of the room it has received, and 0 before the first.
CursorOf(user, room_id) ==
    LET ids == {x.id : x \in {y \in delivered[user] : y.room_id = room_id}}
    IN  IF ids = {} THEN 0 ELSE CHOOSE i \in ids : \A j \in ids : i >= j

\* The response reaches a client that keeps the messages it is sent.
poll_deliver ==
    /\ poll.pc = "done"
    /\ poll' = NoPoll
    /\ delivered' = [delivered EXCEPT ![poll.user] =
                       @ \cup {poll.result[i] : i \in 1..Len(poll.result)}]
    /\ UNCHANGED <<store, next_id, settings, inflight, last, received>>

----------------------------------------------------------------------------
(* main.py: get_messages *)

\* order_by(Message.created_at.desc())
RECURSIVE order_by_created_at_desc(_)
order_by_created_at_desc(rows) ==
    IF rows = {} THEN <<>>
    ELSE LET x == CHOOSE x \in rows : \A y \in rows : created_at(x) >= created_at(y)
         IN  <<x>> \o order_by_created_at_desc(rows \ {x})

\* .limit(limit): the first `limit` rows of the ordered result
limit_rows(rows, limit) ==
    SubSeq(rows, 1, IF limit < Len(rows) THEN limit ELSE Len(rows))

\* messages[::-1]
reversed(rows) == [i \in 1..Len(rows) |-> rows[Len(rows) + 1 - i]]

\* A faulty variant of fetch_messages, used to test C21: the query runs in
\* ascending order, so the limit keeps the oldest rows.
fetch_messages_ascending(room_id, limit) ==
    limit_rows(order_by_created_at({x \in messages : x.room_id = room_id}), limit)

\* lines 561-564
fetch_messages(room_id, limit) ==
    reversed(
      limit_rows(
        order_by_created_at_desc({x \in messages : x.room_id = room_id}), limit))

\* The response of get_messages: the response of a request with the limit
\* asked for and the list returned.
Fetched(user, room_id, limit, resp, result) ==
    last' = IF observed
            THEN [op |-> "get_messages", user |-> user, room |-> room_id,
                  target |-> 0, code |-> NoCode, status |-> resp.status,
                  detail |-> resp.detail, limit |-> limit, result |-> result]
            ELSE last

\* lines 559-564: the handler reads and writes nothing.
get_messages(user, room_id, limit) ==
    /\ worker_free
    /\ \E access \in check_room_access(user, room_id) :
         IF access.raised
         THEN Fetched(user, room_id, limit, access.error, <<>>)
         ELSE Fetched(user, room_id, limit, Ok("messages"), fetch_messages(room_id, limit))
    /\ UNCHANGED <<store, next_id, config, inflight>>

----------------------------------------------------------------------------
(* main.py: create_task, update_task, delete_task *)

TaskNotFound == Response(404, "Task not found")
EditOwnOnly == Response(403, "Can only edit your own tasks")
DeleteOwnOnly == Response(403, "Can only delete your own tasks")

\* The bodies of update_task requests: `fields` are the fields of TaskUpdate
\* the request sets (exclude_unset), among assignee_id and completed; a field
\* that is not set is written 0 or FALSE here.
TaskUpdates ==
    {d \in [fields : SUBSET {"assignee_id", "completed"},
            assignee_id : Users \cup {0}, completed : BOOLEAN] :
       /\ ("assignee_id" \in d.fields) <=> (d.assignee_id # 0)
       /\ ("completed" \notin d.fields) => ~d.completed}

NoUpdate == [fields |-> {}, assignee_id |-> 0, completed |-> FALSE]

NoTask == [id |-> 0, room_id |-> 0, assignee_id |-> 0, completed |-> FALSE]

\* A faulty variant of task_rows, used to test C24: the filter on the room
\* is missing.
task_rows_of_any_room(task_id, room_id) == {t \in tasks : t.id = task_id}

\* db.query(Task).filter(Task.id == task_id, Task.room_id == room_id).first()
task_rows(task_id, room_id) ==
    {t \in tasks : t.id = task_id /\ t.room_id = room_id}

first_task(rows) == IF rows = {} THEN {NoTask} ELSE rows

\* A task request that has done its reads: `row` is the task it loaded and
\* `data` the body of an update.
TaskRequest(op, user, room, pc, row, data) ==
    [op |-> op, user |-> user, room |-> room, pc |-> pc, code |-> NoCode,
     row |-> row, data |-> data]

task_ids_in_use == {t.id : t \in tasks} \cup {p.row.id : p \in InFlight}

free_task_ids == (1..MaxTasks) \ task_ids_in_use

\* A faulty variant of task_decision, used to test C15: the assignee is not
\* compared with the caller.
task_decision_any_member(op, role, user, task) ==
    IF task = NoTask THEN TaskNotFound ELSE Ok(op)

\* What update_task (lines 444-448) and delete_task (lines 461-465) decide
\* once the guard has returned `role` and the query has returned `task`.
task_decision(op, role, user, task) ==
    IF task = NoTask THEN TaskNotFound
    ELSE IF role = MEMBER /\ task.assignee_id # user
    THEN (IF op = "update_task" THEN EditOwnOnly ELSE DeleteOwnOnly)
    ELSE Ok(op)

\* line 433
create_task_check(user, room_id, assignee_id) ==
    /\ worker_free
    /\ free_task_ids # {}
    /\ \E access \in check_room_access(user, room_id) :
         IF access.raised
         THEN /\ Respond("create_task", user, room_id, 0, NoCode, access.error)
              /\ UNCHANGED inflight
         ELSE /\ Begin(TaskRequest("create_task", user, room_id, "insert",
                                   Task(0, room_id, assignee_id), NoUpdate))
              /\ UNCHANGED last
    /\ UNCHANGED <<store, next_id, config>>

\* lines 434-438
create_task_insert(p) ==
    /\ p \in Runnable
    /\ p.op = "create_task"
    /\ free_task_ids # {}
    /\ Finish(p)
    /\ IF fk_ok(p.room)
       THEN /\ tasks' = tasks \cup {Task(Smallest(free_task_ids), p.room, p.row.assignee_id)}
            /\ Respond(p.op, p.user, p.room, Smallest(free_task_ids), NoCode, Created)
       ELSE /\ Respond(p.op, p.user, p.room, 0, NoCode, ServerError)
            /\ UNCHANGED tasks
    /\ UNCHANGED <<rooms, room_members, messages, shopping_items, cleaning_schedule,
                   next_id, config>>

\* lines 442-448 and 459-465
task_check(op, user, room_id, task_id, data) ==
    /\ worker_free
    /\ \E access \in check_room_access(user, room_id) :
         IF access.raised
         THEN /\ Respond(op, user, room_id, task_id, NoCode, access.error)
              /\ UNCHANGED inflight
         ELSE \E task \in first_task(task_rows(task_id, room_id)) :
                LET decision == task_decision(op, access.role, user, task) IN
                IF decision.status # 200
                THEN /\ Respond(op, user, room_id, task_id, NoCode, decision)
                     /\ UNCHANGED inflight
                ELSE /\ Begin(TaskRequest(op, user, room_id, "write", task, data))
                     /\ UNCHANGED last
    /\ UNCHANGED <<store, next_id, config>>

update_task_check(user, room_id, task_id, data) ==
    task_check("update_task", user, room_id, task_id, data)

delete_task_check(user, room_id, task_id) ==
    task_check("delete_task", user, room_id, task_id, NoUpdate)

\* setattr(task, key, value) for the keys the request sets (lines 450-451).
updated_task(task, data) ==
    [task EXCEPT
       !.assignee_id = IF "assignee_id" \in data.fields THEN data.assignee_id ELSE @,
       !.completed = IF "completed" \in data.fields THEN data.completed ELSE @]

\* lines 450-455: the session writes the attributes that differ from the
\* values loaded, with an UPDATE of the row with the loaded id, and raises
\* StaleDataError when that row is gone.
update_task_write(p) ==
    /\ p \in Runnable
    /\ p.op = "update_task"
    /\ Finish(p)
    /\ LET new == updated_task(p.row, p.data) IN
       IF new = p.row
       THEN /\ UNCHANGED tasks
            /\ Respond(p.op, p.user, p.room, p.row.id, NoCode, Ok(p.op))
       ELSE IF \E t \in tasks : t.id = p.row.id
       THEN /\ tasks' = {IF t.id = p.row.id
                         THEN [t EXCEPT
                                 !.assignee_id = IF new.assignee_id = p.row.assignee_id
                                                 THEN @ ELSE new.assignee_id,
                                 !.completed = IF new.completed = p.row.completed
                                               THEN @ ELSE new.completed]
                         ELSE t : t \in tasks}
            /\ Respond(p.op, p.user, p.room, p.row.id, NoCode, Ok(p.op))
       ELSE /\ UNCHANGED tasks
            /\ Respond(p.op, p.user, p.room, p.row.id, NoCode, ServerError)
    /\ UNCHANGED <<rooms, room_members, messages, shopping_items, cleaning_schedule,
                   next_id, config>>

\* lines 467-469
delete_task_delete(p) ==
    /\ p \in Runnable
    /\ p.op = "delete_task"
    /\ Finish(p)
    /\ tasks' = {t \in tasks : t.id # p.row.id}
    /\ Respond(p.op, p.user, p.room, p.row.id, NoCode, Ok("Task deleted"))
    /\ UNCHANGED <<rooms, room_members, messages, shopping_items, cleaning_schedule,
                   next_id, config>>

----------------------------------------------------------------------------
(* main.py: create_shopping_item, update_shopping_item, delete_shopping_item *)

ItemNotFound == Response(404, "Item not found")

\* The bodies of update_shopping_item requests: `fields` are the fields of
\* ShoppingItemUpdate the request sets, of which the model has purchased.
ShoppingItemUpdates ==
    {d \in [fields : SUBSET {"purchased"}, purchased : BOOLEAN] :
       ("purchased" \notin d.fields) => ~d.purchased}

NoItem == [id |-> 0, room_id |-> 0, created_by |-> 0, purchased |-> FALSE]

ShoppingOps == {"create_shopping_item", "update_shopping_item", "delete_shopping_item"}

\* db.query(ShoppingItem).filter(ShoppingItem.id == item_id,
\*                               ShoppingItem.room_id == room_id).first()
item_rows(item_id, room_id) ==
    {x \in shopping_items : x.id = item_id /\ x.room_id = room_id}

first_item(rows) == IF rows = {} THEN {NoItem} ELSE rows

item_ids_in_use ==
    {x.id : x \in shopping_items}
    \cup {p.row.id : p \in {q \in InFlight : q.op \in ShoppingOps}}

free_item_ids == (1..MaxItems) \ item_ids_in_use

\* line 479
create_shopping_item_check(user, room_id) ==
    /\ worker_free
    /\ free_item_ids # {}
    /\ \E access \in check_room_access(user, room_id) :
         IF access.raised
         THEN /\ Respond("create_shopping_item", user, room_id, 0, NoCode, access.error)
              /\ UNCHANGED inflight
         ELSE /\ Begin(TaskRequest("create_shopping_item", user, room_id, "insert",
                                   ShoppingItem(0, room_id, user), NoUpdate))
              /\ UNCHANGED last
    /\ UNCHANGED <<store, next_id, config>>

\* lines 480-484
create_shopping_item_insert(p) ==
    /\ p \in Runnable
    /\ p.op = "create_shopping_item"
    /\ free_item_ids # {}
    /\ Finish(p)
    /\ IF fk_ok(p.room)
       THEN /\ shopping_items' = shopping_items \cup
                   {ShoppingItem(Smallest(free_item_ids), p.room, p.user)}
            /\ Respond(p.op, p.user, p.room, Smallest(free_item_ids), NoCode, Created)
       ELSE /\ Respond(p.op, p.user, p.room, 0, NoCode, ServerError)
            /\ UNCHANGED shopping_items
    /\ UNCHANGED <<rooms, room_members, messages, tasks, cleaning_schedule,
                   next_id, config>>

\* lines 488-491 and 502-505
shopping_item_check(op, user, room_id, item_id, data) ==
    /\ worker_free
    /\ \E access \in check_room_access(user, room_id) :
         IF access.raised
         THEN /\ Respond(op, user, room_id, item_id, NoCode, access.error)
              /\ UNCHANGED inflight
         ELSE \E item \in first_item(item_rows(item_id, room_id)) :
                IF item = NoItem
                THEN /\ Respond(op, user, room_id, item_id, NoCode, ItemNotFound)
                     /\ UNCHANGED inflight
                ELSE /\ Begin(TaskRequest(op, user, room_id, "write", item, data))
                     /\ UNCHANGED last
    /\ UNCHANGED <<store, next_id, config>>

update_shopping_item_check(user, room_id, item_id, data) ==
    shopping_item_check("update_shopping_item", user, room_id, item_id, data)

delete_shopping_item_check(user, room_id, item_id) ==
    shopping_item_check("delete_shopping_item", user, room_id, item_id, NoUpdate)

\* lines 493-498: as in update_task, an UPDATE of the row with the loaded id
\* when an attribute differs from the value loaded.
update_shopping_item_write(p) ==
    /\ p \in Runnable
    /\ p.op = "update_shopping_item"
    /\ Finish(p)
    /\ LET purchased == IF "purchased" \in p.data.fields
                        THEN p.data.purchased ELSE p.row.purchased
       IN
       IF purchased = p.row.purchased
       THEN /\ UNCHANGED shopping_items
            /\ Respond(p.op, p.user, p.room, p.row.id, NoCode, Ok(p.op))
       ELSE IF \E x \in shopping_items : x.id = p.row.id
       THEN /\ shopping_items' = {IF x.id = p.row.id
                                  THEN [x EXCEPT !.purchased = purchased]
                                  ELSE x : x \in shopping_items}
            /\ Respond(p.op, p.user, p.room, p.row.id, NoCode, Ok(p.op))
       ELSE /\ UNCHANGED shopping_items
            /\ Respond(p.op, p.user, p.room, p.row.id, NoCode, ServerError)
    /\ UNCHANGED <<rooms, room_members, messages, tasks, cleaning_schedule,
                   next_id, config>>

\* lines 507-509
delete_shopping_item_delete(p) ==
    /\ p \in Runnable
    /\ p.op = "delete_shopping_item"
    /\ Finish(p)
    /\ shopping_items' = {x \in shopping_items : x.id # p.row.id}
    /\ Respond(p.op, p.user, p.room, p.row.id, NoCode, Ok("Item deleted"))
    /\ UNCHANGED <<rooms, room_members, messages, tasks, cleaning_schedule,
                   next_id, config>>

----------------------------------------------------------------------------
(* main.py: create_cleaning_schedule, update_cleaning_schedule,
   delete_cleaning_schedule *)

ScheduleNotFound == Response(404, "Schedule not found")

\* The bodies of update_cleaning_schedule requests: `fields` are the fields
\* of CleaningScheduleUpdate the request sets, of which the model has
\* user_id; a field that is not set is written 0 here.
CleaningScheduleUpdates ==
    {d \in [fields : SUBSET {"user_id"}, user_id : Users \cup {0}] :
       ("user_id" \in d.fields) <=> (d.user_id # 0)}

NoSchedule == [id |-> 0, room_id |-> 0, user_id |-> 0]

CleaningOps ==
    {"create_cleaning_schedule", "update_cleaning_schedule", "delete_cleaning_schedule"}

\* db.query(CleaningSchedule).filter(CleaningSchedule.id == schedule_id,
\*                                   CleaningSchedule.room_id == room_id).first()
schedule_rows(schedule_id, room_id) ==
    {x \in cleaning_schedule : x.id = schedule_id /\ x.room_id = room_id}

first_schedule(rows) == IF rows = {} THEN {NoSchedule} ELSE rows

schedule_ids_in_use ==
    {x.id : x \in cleaning_schedule}
    \cup {p.row.id : p \in {q \in InFlight : q.op \in CleaningOps}}

free_schedule_ids == (1..MaxSchedules) \ schedule_ids_in_use

\* line 519
create_cleaning_schedule_check(user, room_id, user_id) ==
    /\ worker_free
    /\ free_schedule_ids # {}
    /\ \E access \in check_room_access(user, room_id) :
         IF access.raised
         THEN /\ Respond("create_cleaning_schedule", user, room_id, 0, NoCode,
                         access.error)
              /\ UNCHANGED inflight
         ELSE /\ Begin(TaskRequest("create_cleaning_schedule", user, room_id, "insert",
                                   CleaningSchedule(0, room_id, user_id), NoUpdate))
              /\ UNCHANGED last
    /\ UNCHANGED <<store, next_id, config>>

\* lines 520-524
create_cleaning_schedule_insert(p) ==
    /\ p \in Runnable
    /\ p.op = "create_cleaning_schedule"
    /\ free_schedule_ids # {}
    /\ Finish(p)
    /\ IF fk_ok(p.room)
       THEN /\ cleaning_schedule' = cleaning_schedule \cup
                   {CleaningSchedule(Smallest(free_schedule_ids), p.room, p.row.user_id)}
            /\ Respond(p.op, p.user, p.room, Smallest(free_schedule_ids), NoCode, Created)
       ELSE /\ Respond(p.op, p.user, p.room, 0, NoCode, ServerError)
            /\ UNCHANGED cleaning_schedule
    /\ UNCHANGED <<rooms, room_members, messages, tasks, shopping_items,
                   next_id, config>>

\* lines 528-534 and 545-551
cleaning_schedule_check(op, user, room_id, schedule_id, data) ==
    /\ worker_free
    /\ \E access \in check_room_access(user, room_id) :
         IF access.raised
         THEN /\ Respond(op, user, room_id, schedule_id, NoCode, access.error)
              /\ UNCHANGED inflight
         ELSE \E schedule \in first_schedule(schedule_rows(schedule_id, room_id)) :
                IF schedule = NoSchedule
                THEN /\ Respond(op, user, room_id, schedule_id, NoCode, ScheduleNotFound)
                     /\ UNCHANGED inflight
                ELSE /\ Begin(TaskRequest(op, user, room_id, "write", schedule, data))
                     /\ UNCHANGED last
    /\ UNCHANGED <<store, next_id, config>>

update_cleaning_schedule_check(user, room_id, schedule_id, data) ==
    cleaning_schedule_check("update_cleaning_schedule", user, room_id, schedule_id, data)

delete_cleaning_schedule_check(user, room_id, schedule_id) ==
    cleaning_schedule_check("delete_cleaning_schedule", user, room_id, schedule_id,
                            NoUpdate)

\* lines 536-541: as in update_task, an UPDATE of the row with the loaded id
\* when an attribute differs from the value loaded.
update_cleaning_schedule_write(p) ==
    /\ p \in Runnable
    /\ p.op = "update_cleaning_schedule"
    /\ Finish(p)
    /\ LET user_id == IF "user_id" \in p.data.fields
                      THEN p.data.user_id ELSE p.row.user_id
       IN
       IF user_id = p.row.user_id
       THEN /\ UNCHANGED cleaning_schedule
            /\ Respond(p.op, p.user, p.room, p.row.id, NoCode, Ok(p.op))
       ELSE IF \E x \in cleaning_schedule : x.id = p.row.id
       THEN /\ cleaning_schedule' = {IF x.id = p.row.id
                                     THEN [x EXCEPT !.user_id = user_id]
                                     ELSE x : x \in cleaning_schedule}
            /\ Respond(p.op, p.user, p.room, p.row.id, NoCode, Ok(p.op))
       ELSE /\ UNCHANGED cleaning_schedule
            /\ Respond(p.op, p.user, p.room, p.row.id, NoCode, ServerError)
    /\ UNCHANGED <<rooms, room_members, messages, tasks, shopping_items,
                   next_id, config>>

\* lines 553-555
delete_cleaning_schedule_delete(p) ==
    /\ p \in Runnable
    /\ p.op = "delete_cleaning_schedule"
    /\ Finish(p)
    /\ cleaning_schedule' = {x \in cleaning_schedule : x.id # p.row.id}
    /\ Respond(p.op, p.user, p.room, p.row.id, NoCode, Ok("Schedule deleted"))
    /\ UNCHANGED <<rooms, room_members, messages, tasks, shopping_items,
                   next_id, config>>

----------------------------------------------------------------------------
(* The return of a handler: the response leaves the server *)

return_response ==
    /\ ~returned
    /\ last' = NoRequest
    /\ UNCHANGED <<store, next_id, config, inflight>>

----------------------------------------------------------------------------
(* The server: any user may send any request at any time *)

Next ==
    \/ \E user \in Users : create_room_generate(user)
    \/ \E p \in InFlight : create_room_insert_room(p)
    \/ \E p \in InFlight : create_room_insert_owner(p)
    \/ \E user \in Users, code \in JoinCodes : join_room_check(user, code)
    \/ \E p \in InFlight : join_room_insert(p)
    \/ \E user \in Users, room_id \in RoomIds : delete_room_check(user, room_id)
    \/ \E p \in InFlight : delete_room_delete(p)
    \/ \E user \in Users, room_id \in RoomIds : leave_room_check(user, room_id)
    \/ \E p \in InFlight : leave_room_delete(p)
    \/ \E user \in Users, room_id \in RoomIds, user_id \in Users :
         ban_user_check(user, room_id, user_id)
    \/ \E p \in InFlight : ban_user_write(p)
    \/ \E user \in Users, room_id \in RoomIds, user_id \in Users :
         unban_user_check(user, room_id, user_id)
    \/ \E p \in InFlight : unban_user_write(p)
    \/ \E user \in Users, room_id \in RoomIds, user_id \in Users :
         kick_user_check(user, room_id, user_id)
    \/ \E p \in InFlight : kick_user_write(p)
    \/ \E user \in Users, room_id \in RoomIds : create_message_check(user, room_id)
    \/ \E p \in InFlight : create_message_insert(p)
    \/ \E p \in InFlight : persistence_failure(p)

Spec == Init /\ [][Next]_vars

\* The same server handling one request at a time, each response held in
\* `last` until it is returned.
InitSerial ==
    /\ EmptyStore
    /\ fk_enforced \in BOOLEAN
    /\ workers = 1
    /\ room_quota = MaxRooms
    /\ observed = TRUE

NextSerial == Next \/ return_response

SpecSerial == InitSerial /\ [][NextSerial]_vars

----------------------------------------------------------------------------
(* The guards of permissions.py applied to a table of memberships *)

Guards == {"get_user_room_role", "check_room_access", "check_admin_access",
           "check_owner_access"}

\* The outcome of guard `fn` once .first() has returned `membership`.
guard_outcome(fn, membership) ==
    CASE fn = "get_user_room_role" -> role_of_membership(membership)
      [] fn = "check_room_access" -> room_access_of(role_of_membership(membership))
      [] fn = "check_admin_access" ->
           admin_access_of(room_access_of(role_of_membership(membership)))
      [] fn = "check_owner_access" ->
           owner_access_of(room_access_of(role_of_membership(membership)))

\* The rows a table of room_members can hold: any role, banned or not, and up
\* to two rows of one (room, user), which the schema does not exclude.
MemberRowUniverse ==
    {[RoomMember(<<r, u, k>>, r, u, role) EXCEPT !.is_banned = b] :
       r \in RoomIds, u \in Users, k \in 1..2, role \in UserRole, b \in BOOLEAN}

\* The tables of at most two rows, with distinct ids.
MemberTables ==
    {{}} \cup {t \in {{x, y} : x \in MemberRowUniverse, y \in MemberRowUniverse} :
                 \A x, y \in t : x.id = y.id => x = y}

InitGuards ==
    /\ rooms = {}
    /\ room_members \in MemberTables
    /\ messages = {}
    /\ tasks = {}
    /\ shopping_items = {}
    /\ cleaning_schedule = {}
    /\ next_id = [messages |-> 1]
    /\ inflight = EmptyBag
    /\ last = NoRequest
    /\ probe = NoProbe
    /\ poll = NoPoll
    /\ received = NothingReceived
    /\ delivered = NothingDelivered
    /\ message_quota = MaxMessages
    /\ fk_enforced = FALSE
    /\ workers = 1
    /\ room_quota = MaxRooms
    /\ observed = FALSE

apply_guard(fn, user_id, room_id) ==
    /\ \E membership \in first(MemberRows(user_id, room_id)) :
         probe' = [fn |-> fn, user_id |-> user_id, room_id |-> room_id,
                   membership |-> membership,
                   outcome |-> guard_outcome(fn, membership)]
    /\ UNCHANGED <<store, next_id, fk_enforced, workers, room_quota, message_quota,
                   inflight, observed, last, poll, received, delivered>>

NextGuards ==
    \E fn \in Guards, user_id \in Users, room_id \in RoomIds :
      apply_guard(fn, user_id, room_id)

SpecGuards == InitGuards /\ [][NextGuards]_vars

----------------------------------------------------------------------------
(* The task handlers on a database with rooms and memberships in place *)

\* What a user other than the owner can be in a room: not a member, or a
\* member with role MEMBER or ADMIN, or a banned member. (No handler assigns
\* ADMIN; the column admits it and the handlers of tasks distinguish it.)
Standings == {"none", "member", "admin", "banned"}

standing_rows(room_id, user_id, standing) ==
    CASE standing = "none" -> {}
      [] standing = "member" -> {RoomMember(<<room_id, user_id, 1>>, room_id, user_id, MEMBER)}
      [] standing = "admin" -> {RoomMember(<<room_id, user_id, 1>>, room_id, user_id, ADMIN)}
      [] standing = "banned" ->
           {[RoomMember(<<room_id, user_id, 1>>, room_id, user_id, MEMBER)
               EXCEPT !.is_banned = TRUE]}

\* Every room was created by user 1, who is its owner.
Creator == 1

created_rooms ==
    {Room(r, [i \in 1..CodeLength |-> IF i = 1 /\ r = 1 THEN "7" ELSE "A"], Creator) :
       r \in 1..2}

\* The memberships when the other users have standing[u] in room 1 and are
\* not members of the other rooms.
memberships_of(standing) ==
    {owner_membership(<<r.id, Creator, 1>>, r.id, Creator) : r \in created_rooms}
    \cup UNION {standing_rows(1, u, standing[u]) : u \in Users \ {Creator}}

InitTasks ==
    /\ rooms = created_rooms
    /\ \E standing \in [Users \ {Creator} -> Standings] :
         room_members = memberships_of(standing)
    /\ messages = {}
    /\ tasks = {}
    /\ shopping_items = {}
    /\ cleaning_schedule = {}
    /\ next_id = [messages |-> 1]
    /\ inflight = EmptyBag
    /\ last = NoRequest
    /\ probe = NoProbe
    /\ poll = NoPoll
    /\ received = NothingReceived
    /\ delivered = NothingDelivered
    /\ message_quota = MaxMessages
    /\ fk_enforced = FALSE
    /\ workers = 1
    /\ room_quota = MaxRooms
    /\ observed = TRUE

TaskIds == 1..MaxTasks

NextTasks ==
    \/ \E user \in Users, room_id \in RoomIds, assignee_id \in Users :
         create_task_check(user, room_id, assignee_id)
    \/ \E p \in InFlight : create_task_insert(p)
    \/ \E user \in Users, room_id \in RoomIds, task_id \in TaskIds, data \in TaskUpdates :
         update_task_check(user, room_id, task_id, data)
    \/ \E p \in InFlight : update_task_write(p)
    \/ \E user \in Users, room_id \in RoomIds, task_id \in TaskIds :
         delete_task_check(user, room_id, task_id)
    \/ \E p \in InFlight : delete_task_delete(p)
    \/ \E p \in InFlight : persistence_failure(p)
    \/ return_response

SpecTasks == InitTasks /\ [][NextTasks]_vars

----------------------------------------------------------------------------
(* poll_messages next to the handlers that send, ban, kick and leave *)

InitPoll ==
    /\ rooms = created_rooms
    /\ \E standing \in [Users \ {Creator} -> Standings] :
         room_members = memberships_of(standing)
    /\ messages = {}
    /\ tasks = {}
    /\ shopping_items = {}
    /\ cleaning_schedule = {}
    /\ next_id = [messages |-> 1]
    /\ inflight = EmptyBag
    /\ last = NoRequest
    /\ probe = NoProbe
    /\ poll = NoPoll
    /\ received = NothingReceived
    /\ delivered = NothingDelivered
    /\ message_quota = MaxPollMessages
    /\ fk_enforced = FALSE
    /\ workers = 1
    /\ room_quota = MaxRooms
    /\ observed = FALSE

\* The cursors of a client: the largest id it has received, or 0.
Cursors(user) == {0, received[user]}

\* The timeouts clients ask for, in seconds: short ones, and long ones up to
\* one that is longer than the server allows.
ShortTimeouts == {-1, 0, 1}
LongTimeouts == {0, MaxTimeout - 1, MaxTimeout + 1}

\* The handlers in the worker threads next to a poll.
NextBesidePoll ==
    \/ \E user \in Users, room_id \in RoomIds : create_message_check(user, room_id)
    \/ \E p \in InFlight : create_message_insert(p)
    \/ \E user \in Users, room_id \in RoomIds, user_id \in Users :
         ban_user_check(user, room_id, user_id)
    \/ \E p \in InFlight : ban_user_write(p)
    \/ \E user \in Users, room_id \in RoomIds, user_id \in Users :
         kick_user_check(user, room_id, user_id)
    \/ \E p \in InFlight : kick_user_write(p)
    \/ \E user \in Users, room_id \in RoomIds : leave_room_check(user, room_id)
    \/ \E p \in InFlight : leave_room_delete(p)

NextPoll ==
    \/ NextBesidePoll
    \/ \E user \in Users, room_id \in RoomIds, timeout \in ShortTimeouts :
         \E last_message_id \in Cursors(user) :
           poll_start(user, room_id, last_message_id, timeout)
    \/ poll_query
    \/ poll_sleep
    \/ poll_return

SpecPoll == InitPoll /\ [][NextPoll]_vars

\* The same with polls that wait long, on a database that takes one message.
\* The event loop runs a coroutine that can take a step: neither the query
\* nor the wake-up of a poll is put off for ever.
InitPollLong ==
    /\ rooms = created_rooms
    /\ \E standing \in [Users \ {Creator} -> Standings] :
         room_members = memberships_of(standing)
    /\ messages = {}
    /\ tasks = {}
    /\ shopping_items = {}
    /\ cleaning_schedule = {}
    /\ next_id = [messages |-> 1]
    /\ inflight = EmptyBag
    /\ last = NoRequest
    /\ probe = NoProbe
    /\ poll = NoPoll
    /\ received = NothingReceived
    /\ delivered = NothingDelivered
    /\ message_quota = MaxMessages
    /\ fk_enforced = FALSE
    /\ workers = 1
    /\ room_quota = MaxRooms
    /\ observed = FALSE

NextPollLong ==
    \/ NextBesidePoll
    \/ \E user \in Users, room_id \in RoomIds, timeout \in LongTimeouts :
         \E last_message_id \in Cursors(user) :
           poll_start(user, room_id, last_message_id, timeout)
    \/ poll_query
    \/ poll_sleep
    \/ poll_return

SpecPollLong ==
    /\ InitPollLong
    /\ [][NextPollLong]_vars
    /\ WF_vars(poll_query)
    /\ WF_vars(poll_sleep)

----------------------------------------------------------------------------
(* get_messages next to create_message, one request at a time *)

InitFetch ==
    /\ rooms = created_rooms
    /\ \E standing \in [Users \ {Creator} -> Standings] :
         room_members = memberships_of(standing)
    /\ messages = {}
    /\ tasks = {}
    /\ shopping_items = {}
    /\ cleaning_schedule = {}
    /\ next_id = [messages |-> 1]
    /\ inflight = EmptyBag
    /\ last = NoRequest
    /\ probe = NoProbe
    /\ poll = NoPoll
    /\ received = NothingReceived
    /\ delivered = NothingDelivered
    /\ message_quota = MaxPollMessages
    /\ fk_enforced = FALSE
    /\ workers = 1
    /\ room_quota = MaxRooms
    /\ observed = TRUE

\* The limits clients ask for: none, fewer than, as many as and more than
\* the messages there can be.
Limits == 0..(MaxPollMessages + 1)

NextFetch ==
    \/ \E user \in Users, room_id \in RoomIds : create_message_check(user, room_id)
    \/ \E p \in InFlight : create_message_insert(p)
    \/ \E user \in Users, room_id \in RoomIds, limit \in Limits :
         get_messages(user, room_id, limit)
    \/ return_response

SpecFetch == InitFetch /\ [][NextFetch]_vars

----------------------------------------------------------------------------
(* create_room and delete_room in concurrent workers, the generator's loop
   taken one turn at a time *)

InitCodes ==
    /\ EmptyStore
    /\ fk_enforced = FALSE
    /\ workers = MaxInFlight
    /\ room_quota = MaxRooms
    /\ observed = FALSE

NextCodes ==
    \/ \E user \in Users : create_room_start(user)
    \/ \E p \in InFlight : generate_room_code_draw(p)
    \/ \E p \in InFlight : generate_room_code_query(p)
    \/ \E p \in InFlight : create_room_insert_room(p)
    \/ \E p \in InFlight : create_room_insert_owner(p)
    \/ \E user \in Users, room_id \in RoomIds : delete_room_check(user, room_id)
    \/ \E p \in InFlight : delete_room_delete(p)

SpecCodes == InitCodes /\ [][NextCodes]_vars

----------------------------------------------------------------------------
(* Clients that poll with the largest id they have received, next to sends
   in concurrent workers *)

InitPollRace ==
    /\ rooms = created_rooms
    /\ \E standing \in [Users \ {Creator} -> Standings] :
         room_members = memberships_of(standing)
    /\ messages = {}
    /\ tasks = {}
    /\ shopping_items = {}
    /\ cleaning_schedule = {}
    /\ next_id = [messages |-> 1]
    /\ inflight = EmptyBag
    /\ last = NoRequest
    /\ probe = NoProbe
    /\ poll = NoPoll
    /\ received = NothingReceived
    /\ delivered = NothingDelivered
    /\ message_quota = MaxPollMessages
    /\ fk_enforced = FALSE
    /\ workers = MaxInFlight
    /\ room_quota = MaxRooms
    /\ observed = FALSE

NextPollRace ==
    \/ \E user \in Users, room_id \in RoomIds : create_message_check(user, room_id)
    \/ \E p \in InFlight : create_message_flush(p)
    \/ \E p \in InFlight : create_message_commit(p)
    \/ \E user \in Users, room_id \in RoomIds, timeout \in ShortTimeouts :
         poll_start(user, room_id, CursorOf(user, room_id), timeout)
    \/ poll_query
    \/ poll_sleep
    \/ poll_deliver

SpecPollRace == InitPollRace /\ [][NextPollRace]_vars

----------------------------------------------------------------------------
(* The handlers of tasks, shopping items and cleaning schedules on two rooms
   with different owners *)

\* Room 1 is owned by user 1 and room 2 by user 2.
OwnerOf(room_id) == room_id

owned_rooms ==
    {Room(r, [i \in 1..CodeLength |-> IF i = 1 /\ r = 1 THEN "7" ELSE "A"], OwnerOf(r)) :
       r \in 1..2}

\* The memberships when the owner of room 2 has `standing` in room 1; the
\* owner of room 1 is not a member of room 2.
memberships_in(standing) ==
    {owner_membership(<<r.id, r.created_by, 1>>, r.id, r.created_by) : r \in owned_rooms}
    \cup standing_rows(1, OwnerOf(2), standing)

InitRecords ==
    /\ rooms = owned_rooms
    /\ \E standing \in Standings : room_members = memberships_in(standing)
    /\ messages = {}
    /\ tasks = {}
    /\ shopping_items = {}
    /\ cleaning_schedule = {}
    /\ next_id = [messages |-> 1]
    /\ inflight = EmptyBag
    /\ last = NoRequest
    /\ probe = NoProbe
    /\ poll = NoPoll
    /\ received = NothingReceived
    /\ delivered = NothingDelivered
    /\ message_quota = MaxMessages
    /\ fk_enforced = FALSE
    /\ workers = 1
    /\ room_quota = MaxRooms
    /\ observed = TRUE

ItemIds == 1..MaxItems
ScheduleIds == 1..MaxSchedules

NextRecords ==
    \/ \E user \in Users, room_id \in RoomIds, assignee_id \in Users :
         create_task_check(user, room_id, assignee_id)
    \/ \E p \in InFlight : create_task_insert(p)
    \/ \E user \in Users, room_id \in RoomIds, task_id \in TaskIds, data \in TaskUpdates :
         update_task_check(user, room_id, task_id, data)
    \/ \E p \in InFlight : update_task_write(p)
    \/ \E user \in Users, room_id \in RoomIds, task_id \in TaskIds :
         delete_task_check(user, room_id, task_id)
    \/ \E p \in InFlight : delete_task_delete(p)
    \/ \E user \in Users, room_id \in RoomIds : create_shopping_item_check(user, room_id)
    \/ \E p \in InFlight : create_shopping_item_insert(p)
    \/ \E user \in Users, room_id \in RoomIds, item_id \in ItemIds,
          data \in ShoppingItemUpdates :
         update_shopping_item_check(user, room_id, item_id, data)
    \/ \E p \in InFlight : update_shopping_item_write(p)
    \/ \E user \in Users, room_id \in RoomIds, item_id \in ItemIds :
         delete_shopping_item_check(user, room_id, item_id)
    \/ \E p \in InFlight : delete_shopping_item_delete(p)
    \/ \E user \in Users, room_id \in RoomIds, user_id \in Users :
         create_cleaning_schedule_check(user, room_id, user_id)
    \/ \E p \in InFlight : create_cleaning_schedule_insert(p)
    \/ \E user \in Users, room_id \in RoomIds, schedule_id \in ScheduleIds,
          data \in CleaningScheduleUpdates :
         update_cleaning_schedule_check(user, room_id, schedule_id, data)
    \/ \E p \in InFlight : update_cleaning_schedule_write(p)
    \/ \E user \in Users, room_id \in RoomIds, schedule_id \in ScheduleIds :
         delete_cleaning_schedule_check(user, room_id, schedule_id)
    \/ \E p \in InFlight : delete_cleaning_schedule_delete(p)
    \/ return_response

SpecRecords == InitRecords /\ [][NextRecords]_vars

----------------------------------------------------------------------------
(* create_room and delete_room one request at a time, the generator's loop
   taken one turn at a time *)

InitCodesFair ==
    /\ EmptyStore
    /\ fk_enforced = FALSE
    /\ workers = 1
    /\ room_quota = MaxRooms
    /\ observed = TRUE

NextCodesFair == NextCodes \/ return_response

\* The worker thread of a request in the generator keeps running, and
\* random.choices is fair: a code that can be drawn again and again is
\* drawn at some time.
SpecCodesFair ==
    /\ InitCodesFair
    /\ [][NextCodesFair]_vars
    /\ WF_vars(\E p \in InFlight : generate_room_code_draw(p))
    /\ WF_vars(\E p \in InFlight : generate_room_code_query(p))
    /\ SF_vars(\E p \in InFlight : generate_room_code_draw_unused(p))

----------------------------------------------------------------------------
(* Properties *)

OwnerRows(room_id) ==
    {m \in room_members : m.room_id = room_id /\ m.role = OWNER}

\* A step in which a request ends and its response is made (SpecSerial).
Responds == returned /\ ~returned'

\* C1: in every reachable state, the states in the middle of create_room
\* included, each room of table rooms has exactly one membership with role
\* OWNER.
C1_ExactlyOneOwnerPerRoom ==
    \A r \in rooms : Cardinality(OwnerRows(r.id)) = 1

\* The requests of the model that are addressed to a room by its id.
RoomScopedOps == {"delete_room", "leave", "ban", "unban", "kick", "create_message"}

\* The caller has no membership in the room, or only banned ones.
NoAccess(user_id, room_id) ==
    \A m \in MemberRows(user_id, room_id) : m.is_banned

\* A response that denies access: a 403 of a guard, or the refusal of
\* leave_room for a caller without a membership.
IsDenial(response) ==
    \/ response.status = 403
    \/ response.status = 404 /\ response.detail = "Not a member"

\* C2: every request addressed to a room by its id whose caller has no
\* membership in that room, or a banned one, ends with an access denial and
\* changes no table.
C2_DeniedWithoutMembership ==
    [][(Responds /\ last'.op \in RoomScopedOps /\ NoAccess(last'.user, last'.room))
         => (IsDenial(last') /\ store' = store)]_vars

\* C3: what each guard does with the membership its query found. A banned
\* membership makes all four functions raise the ban failure, whatever its
\* role; without a membership get_user_room_role returns "not a member" and
\* the three guards raise NotAMember; a membership that is not banned passes
\* check_room_access with its role, check_admin_access exactly for OWNER and
\* ADMIN, check_owner_access exactly for OWNER.
C3_GuardsDecideByMembership ==
    probe.fn # "none" =>
      LET rows == MemberRows(probe.user_id, probe.room_id)
          m == probe.membership
          o == probe.outcome
          passes == CASE probe.fn = "check_admin_access" -> m.role \in {"owner", "admin"}
                      [] probe.fn = "check_owner_access" -> m.role = "owner"
                      [] OTHER -> TRUE
          refusal == IF probe.fn = "check_admin_access"
                     THEN "Admin rights required" ELSE "Owner rights required"
      IN  /\ (rows = {}) <=> (m = NoRow)
          /\ m # NoRow => m \in rows
          /\ (m # NoRow /\ m.is_banned) =>
               /\ o.raised
               /\ o.error = [status |-> 403, detail |-> "You are banned from this room"]
          /\ m = NoRow =>
               IF probe.fn = "get_user_room_role"
               THEN ~o.raised /\ o.role = NotMember
               ELSE /\ o.raised
                    /\ o.error = [status |-> 403,
                                  detail |-> "You are not a member of this room"]
          /\ (m # NoRow /\ ~m.is_banned) =>
               IF passes
               THEN ~o.raised /\ o.role = m.role
               ELSE o.raised /\ o.error = [status |-> 403, detail |-> refusal]

\* A guard has been applied to a banned membership with role OWNER.
C3_Witness ==
    /\ probe.fn = "check_owner_access"
    /\ probe.membership.is_banned
    /\ probe.membership.role = OWNER
    /\ probe.outcome.raised

OwnerOps == {"delete_room", "ban", "unban", "kick"}

\* The caller holds a membership with role OWNER that is not banned.
Owns(user_id, room_id) ==
    \E m \in MemberRows(user_id, room_id) : m.role = OWNER /\ ~m.is_banned

\* C4: a delete_room, ban, unban or kick request changes a table only when
\* its caller holds a membership of that room with role OWNER that is not
\* banned; any other caller gets a 403 and no table changes, and a caller
\* with a membership of another role gets "Owner rights required".
C4_OwnerOnly ==
    [][(Responds /\ last'.op \in OwnerOps) =>
         /\ store' # store => Owns(last'.user, last'.room)
         /\ ~Owns(last'.user, last'.room) => (last'.status = 403 /\ store' = store)
         /\ (~Owns(last'.user, last'.room) /\ ~NoAccess(last'.user, last'.room)) =>
              last'.detail = "Owner rights required"]_vars

\* A member of one room who owns another room has been refused a ban, unban,
\* kick or delete in the room where they are a member.
C4_Witness ==
    /\ last.op \in OwnerOps
    /\ last.status = 403 /\ last.detail = "Owner rights required"
    /\ \E m \in MemberRows(last.user, last.room) : m.role = MEMBER /\ ~m.is_banned
    /\ \E r \in rooms : r.id # last.room /\ Owns(last.user, r.id)

\* C5: a banned membership stays in the table, banned, until the owner
\* unbans or kicks its user (or deletes the room), and a join of the room by
\* a user with a banned membership fails with Banned and changes no table.
C5_BanLastsUntilUnbanOrKick ==
    [][/\ \A m \in room_members :
            m.is_banned =>
              \/ m \in room_members'
              \/ /\ Responds
                 /\ last'.op \in {"unban", "kick"}
                 /\ last'.room = m.room_id /\ last'.target = m.user_id
              \/ Responds /\ last'.op = "delete_room" /\ last'.room = m.room_id
       /\ (/\ Responds
           /\ last'.op = "join"
           /\ \E m \in MemberRows(last'.user, last'.room) : m.is_banned)
            => (last'.status = 403 /\ store' = store)]_vars

\* C6: there is at most one membership row per (user, room).
C6_OneMembershipPerPair ==
    \A x, y \in room_members :
      (x.user_id = y.user_id /\ x.room_id = y.room_id) => x = y

\* C7: after a create_room that failed, no room is without a membership
\* with role OWNER.
C7_FailedCreateLeavesNoOwnerlessRoom ==
    (last.op = "create_room" /\ last.status = 500) =>
      \A r \in rooms : OwnerRows(r.id) # {}

\* C8: no membership, task, shopping item, cleaning schedule or message
\* refers to a room that is not in table rooms.
C8_NoChildOutlivesItsRoom ==
    \A x \in room_members \cup tasks \cup shopping_items \cup cleaning_schedule
             \cup messages :
      \E r \in rooms : r.id = x.room_id

SameLetter(x, y) == x = y \/ {x, y} \in {{"a", "A"}, {"b", "B"}}

EqualIgnoringCase(a, b) ==
    /\ Len(a) = Len(b)
    /\ \A i \in 1..Len(a) : SameLetter(a[i], b[i])

OtherTables == <<rooms, messages, tasks, shopping_items, cleaning_schedule>>

\* C9: a join fails with "Room not found" when no room has the code up to
\* the case of its letters; else with "You are banned from this room" or
\* "Already a member" when the caller has a membership of that room, banned
\* or not; no table changes in these cases. Else it adds one membership of
\* the caller in that room with role MEMBER, not banned, and changes nothing
\* else.
C9_JoinDecision ==
    [][(Responds /\ last'.op = "join") =>
         LET user == last'.user
             matches == {r \in rooms : EqualIgnoringCase(r.code, last'.code)}
         IN  IF matches = {}
             THEN /\ last'.status = 404 /\ last'.detail = "Room not found"
                  /\ store' = store
             ELSE \E r \in matches :
                    /\ last'.room = r.id
                    /\ IF MemberRows(user, r.id) # {}
                       THEN /\ store' = store
                            /\ \E m \in MemberRows(user, r.id) :
                                 IF m.is_banned
                                 THEN /\ last'.status = 403
                                      /\ last'.detail = "You are banned from this room"
                                 ELSE /\ last'.status = 400
                                      /\ last'.detail = "Already a member"
                       ELSE \/ last'.status = 500 /\ store' = store
                            \/ /\ last'.status = 200
                               /\ room_members \subseteq room_members'
                               /\ Cardinality(room_members' \ room_members) = 1
                               /\ \A m \in room_members' \ room_members :
                                    /\ m.room_id = r.id /\ m.user_id = user
                                    /\ m.role = "member" /\ ~m.is_banned
                               /\ OtherTables' = OtherTables]_vars

\* A join with a code that is not in upper case has made the caller a member.
C9_Witness ==
    /\ last.op = "join" /\ last.status = 200
    /\ last.code \notin RandomCodes
    /\ \E m \in MemberRows(last.user, last.room) : m.role = MEMBER /\ ~m.is_banned

\* C10: a leave fails with "Not a member" when the caller has no membership
\* of the room and with "Owner cannot leave ..." when the caller's membership
\* has role OWNER, and changes no table then; otherwise it removes one row,
\* a membership of the caller in that room, and changes nothing else.
C10_LeaveDecision ==
    [][(Responds /\ last'.op = "leave") =>
         LET rows == MemberRows(last'.user, last'.room) IN
         IF rows = {}
         THEN /\ last'.status = 404 /\ last'.detail = "Not a member"
              /\ store' = store
         ELSE IF \E m \in rows : m.role = OWNER
         THEN /\ last'.status = 400
              /\ last'.detail = "Owner cannot leave the room. Delete it instead."
              /\ store' = store
         ELSE \/ last'.status = 500 /\ store' = store
              \/ /\ last'.status = 200
                 /\ \E m \in rows : room_members' = room_members \ {m}
                 /\ OtherTables' = OtherTables]_vars

\* A member has left a room that holds a message; the owner's membership,
\* the room and the message are still there.
C10_Witness ==
    /\ last.op = "leave" /\ last.status = 200
    /\ MemberRows(last.user, last.room) = {}
    /\ OwnerRows(last.room) # {}
    /\ \E x \in messages : x.room_id = last.room

\* The rows of user_id in room_id in a table of memberships.
RowsOf(table, user_id, room_id) ==
    {m \in table : m.user_id = user_id /\ m.room_id = room_id}

\* The table room_members with row m replaced by row n.
Replaced(m, n) == (room_members \ {m}) \cup {n}

\* C11: a ban or kick by the owner of the room fails with "User not found in
\* room" when the target has no membership of the room and with "Cannot ban
\* owner" / "Cannot kick owner" when the target's membership has role OWNER
\* (the owner's own membership included), and changes no table then.
\* Otherwise ban keeps the target's row and sets its is_banned, kick removes
\* the row, and nothing else changes.
C11_BanAndKickDecision ==
    [][(Responds /\ last'.op \in {"ban", "kick"} /\ Owns(last'.user, last'.room)) =>
         LET rows == MemberRows(last'.target, last'.room) IN
         IF rows = {}
         THEN /\ last'.status = 404 /\ last'.detail = "User not found in room"
              /\ store' = store
         ELSE IF \E m \in rows : m.role = OWNER
         THEN /\ last'.status = 400
              /\ last'.detail = IF last'.op = "ban" THEN "Cannot ban owner"
                                ELSE "Cannot kick owner"
              /\ store' = store
         ELSE \/ last'.status = 500 /\ store' = store
              \/ /\ last'.status = 200
                 /\ OtherTables' = OtherTables
                 /\ \E m \in rows :
                      room_members' =
                        IF last'.op = "ban"
                        THEN Replaced(m, [m EXCEPT !.is_banned = TRUE])
                        ELSE room_members \ {m}]_vars

\* The owner has tried to ban themselves and was refused.
C11_Witness ==
    /\ last.op = "ban" /\ last.target = last.user
    /\ last.status = 400 /\ last.detail = "Cannot ban owner"
    /\ \E m \in MemberRows(last.user, last.room) : m.role = OWNER /\ ~m.is_banned

\* C12: a ban by the owner changes only is_banned of the target's row, to
\* true, after which the member guard rejects the target with the ban
\* failure; an unban by the owner changes only is_banned of the target's
\* row, to false, whatever it was, after which the member guard passes the
\* target with the role of the row: ban then unban gives back the row as it
\* was. An unban of a user without a row fails with "User not found in room".
C12_BanUnbanRoundTrip ==
    [][(Responds /\ last'.op \in {"ban", "unban"} /\ Owns(last'.user, last'.room)) =>
         LET rows == MemberRows(last'.target, last'.room)
             banned == last'.op = "ban"
         IN  /\ (last'.op = "unban" /\ rows = {}) =>
                  /\ last'.status = 404 /\ last'.detail = "User not found in room"
                  /\ store' = store
             /\ (last'.op = "unban" /\ rows # {}) => last'.status \in {200, 500}
             /\ last'.status = 200 =>
                  /\ OtherTables' = OtherTables
                  /\ \E m \in rows :
                       /\ room_members' = Replaced(m, [m EXCEPT !.is_banned = banned])
                       /\ \A n \in RowsOf(room_members', last'.target, last'.room) :
                            guard_outcome("check_room_access", n) =
                              IF banned THEN Raised(BanFailure) ELSE Returned(m.role)]_vars

\* A member has been unbanned: the row is there, not banned, with role MEMBER.
C12_Witness ==
    /\ last.op = "unban" /\ last.status = 200
    /\ \E m \in MemberRows(last.target, last.room) : m.role = MEMBER /\ ~m.is_banned
    /\ last.target # last.user

\* C13: after a kick by the owner the target has no membership of the room,
\* whatever role or ban flag the row had; and a join with the code of a room
\* by a user without a membership of it gives that user one membership with
\* role MEMBER, not banned.
C13_KickThenRejoin ==
    [][/\ (Responds /\ last'.op = "kick" /\ last'.status = 200) =>
            /\ MemberRows(last'.target, last'.room) # {}
            /\ RowsOf(room_members', last'.target, last'.room) = {}
       /\ (/\ Responds
           /\ last'.op = "join"
           /\ \E r \in rooms : r.id = last'.room /\ EqualIgnoringCase(r.code, last'.code)
           /\ MemberRows(last'.user, last'.room) = {}) =>
            \/ last'.status = 500 /\ store' = store
            \/ /\ last'.status = 200
               /\ \E m \in room_members' :
                    RowsOf(room_members', last'.user, last'.room) = {m}
                    /\ m.role = MEMBER /\ ~m.is_banned]_vars

\* A member who had sent a message has been kicked: the user has no row, and the room is
\* there to be joined again with its code.
C13_Witness ==
    /\ last.op = "kick" /\ last.status = 200
    /\ MemberRows(last.target, last.room) = {}
    /\ \E r \in rooms : r.id = last.room /\ r.code \in JoinCodes
    /\ \E x \in messages : x.room_id = last.room /\ x.sender_id = last.target

\* C14: a membership with role OWNER is the membership of the user who
\* created its room and is not banned; no step changes the role of a
\* membership, and no step changes or removes a membership with role OWNER
\* unless it deletes the room.
C14_OwnerIsCreator ==
    /\ [](\A m \in room_members :
            m.role = OWNER =>
              /\ ~m.is_banned
              /\ \A r \in rooms : r.id = m.room_id => r.created_by = m.user_id)
    /\ [][/\ \A m \in room_members, n \in room_members' : m.id = n.id => m.role = n.role
          /\ \A m \in room_members :
               (m.role = OWNER /\ RoomExists(m.room_id)') => m \in room_members']_vars

\* The owner has been refused to leave, or to be kicked, and is still the
\* owner of the room they created, next to another member.
C14_Witness ==
    /\ last.op \in {"leave", "kick"} /\ last.status = 400
    /\ \E r \in rooms, m \in OwnerRows(last.room) :
         r.id = last.room /\ r.created_by = m.user_id
    /\ \E m \in room_members : m.room_id = last.room /\ m.role = MEMBER

TaskOps == {"update_task", "delete_task"}

\* C15: an update or delete of a task of the room by a member who is not
\* banned is refused with a 403 ("Can only edit / delete your own tasks"),
\* the tables unchanged, when the member's role is MEMBER and the task is
\* assigned to someone else; it succeeds when the role is MEMBER and the task
\* is assigned to the caller, and when the role is ADMIN or OWNER whoever the
\* assignee is: the delete removes that task, the update changes at most
\* that task, and nothing else changes.
C15_MemberEditsOwnTasksOnly ==
    [][(Responds /\ last'.op \in TaskOps) =>
         LET user == last'.user
             rows == MemberRows(user, last'.room)
             found == task_rows(last'.target, last'.room)
         IN  /\ store' # store =>
                  /\ found # {}
                  /\ \E m \in rows : ~m.is_banned
             /\ (rows # {} /\ found # {} /\ \A m \in rows : ~m.is_banned) =>
                  \E m \in rows, t \in found :
                    IF m.role = MEMBER /\ t.assignee_id # user
                    THEN /\ last'.status = 403
                         /\ last'.detail = IF last'.op = "update_task"
                                           THEN "Can only edit your own tasks"
                                           ELSE "Can only delete your own tasks"
                         /\ store' = store
                    ELSE \/ last'.status = 500 /\ store' = store
                         \/ /\ last'.status = 200
                            /\ <<rooms, room_members, messages, shopping_items,
                                 cleaning_schedule>>' =
                               <<rooms, room_members, messages, shopping_items,
                                 cleaning_schedule>>
                            /\ IF last'.op = "delete_task"
                               THEN tasks' = tasks \ {t}
                               ELSE \E n \in tasks' :
                                      /\ n.id = t.id /\ n.room_id = t.room_id
                                      /\ tasks' = (tasks \ {t}) \cup {n}]_vars

\* A MEMBER has been refused the delete of a task assigned to someone else,
\* in a room where an ADMIN or OWNER could delete it; the task is still there.
C15_Witness ==
    /\ last.op = "delete_task"
    /\ last.status = 403 /\ last.detail = "Can only delete your own tasks"
    /\ \E m \in MemberRows(last.user, last.room) : m.role = MEMBER /\ ~m.is_banned
    /\ \E t \in task_rows(last.target, last.room) : t.assignee_id # last.user

\* The messages a poll asks for: those of its room, with an id above its
\* cursor when the cursor is above 0.
Wanted ==
    {x \in messages :
       /\ x.room_id = poll.room
       /\ poll.last_message_id = 0 \/ x.id > poll.last_message_id}

\* The step in which a poll that was let in returns.
PollAnswers == poll.pc = "query" /\ poll'.pc = "done"

\* C16: a poll that returns messages returns the messages of its room with
\* an id above its cursor (all the messages of the room when the cursor is
\* 0), each once, in the order of their creation, and nothing else; and a
\* query of the poll at which there is such a message ends the poll with
\* them.
C16_PollReturnsNewMessagesOfRoom ==
    [][/\ PollAnswers =>
            LET result == poll'.result IN
            /\ {result[i] : i \in 1..Len(result)} = Wanted
            /\ Len(result) = Cardinality(Wanted)
            /\ \A i, j \in 1..Len(result) : i < j => result[i].id < result[j].id
       /\ (poll.pc = "query" /\ poll' # poll /\ Wanted # {}) =>
            (PollAnswers /\ poll'.status = 200)]_vars

\* A poll with cursor 0 has returned two messages of its room and left out
\* one of another room that was created between them.
C16_Witness ==
    /\ poll.pc = "done" /\ poll.last_message_id = 0
    /\ Len(poll.result) = 2
    /\ \E x \in messages :
         /\ x.room_id # poll.room
         /\ poll.result[1].id < x.id /\ x.id < poll.result[2].id

\* The timeout in force, in seconds, for the timeout the client asked for.
Clamped(requested) == IF requested > 30 THEN 30 ELSE requested

\* C17: every poll that was let in returns. The timeout in force is the
\* smaller of the timeout asked for and 30 seconds. A poll returns the empty
\* list, a success, only when no message it asks for exists and the timeout
\* in force has elapsed, and no later than one retry interval after it; a
\* query at which no such message exists and the timeout has elapsed ends
\* the poll.
C17_PollTerminates ==
    /\ (poll.pc \in {"query", "sleep"}) ~> (poll.pc = "done")
    /\ [][/\ (PollAnswers /\ poll'.result = <<>>) =>
               /\ poll'.status = 200
               /\ Wanted = {}
               /\ poll.elapsed >= Clamped(poll.requested) * TicksPerSecond
               /\ \/ poll.elapsed <= Clamped(poll.requested) * TicksPerSecond + 1
                  \/ poll.elapsed = 0
          /\ (/\ poll.pc = "query" /\ poll' # poll
              /\ poll.elapsed >= Clamped(poll.requested) * TicksPerSecond) =>
               PollAnswers]_vars

\* A poll that asked for more than 30 seconds has returned the empty list
\* when 30 seconds had elapsed.
C17_Witness ==
    /\ poll.pc = "done" /\ poll.status = 200 /\ poll.result = <<>>
    /\ poll.requested > 30
    /\ poll.elapsed = 30 * TicksPerSecond

\* C18: while a poll sleeps, a member's send is taken up and its insert
\* goes through as without the poll; and the query after a sleep returns
\* the messages the poll asks for that were committed meanwhile, with a
\* success that is not empty, whether or not the timeout has elapsed.
C18_PollSeesMessagesSentMeanwhile ==
    /\ [](poll.pc = "sleep" =>
            /\ \A user \in Users, room_id \in RoomIds :
                 (worker_free /\ next_id.messages <= message_quota) =>
                   ENABLED create_message_check(user, room_id)
            /\ \A p \in Runnable :
                 (p.op = "create_message" /\ next_id.messages <= message_quota) =>
                   ENABLED create_message_insert(p))
    /\ [][(poll.pc = "query" /\ poll.queries = 1 /\ poll' # poll /\ Wanted # {}) =>
            /\ PollAnswers
            /\ poll'.status = 200
            /\ Wanted \subseteq {poll'.result[i] : i \in 1..Len(poll'.result)}]_vars

\* A poll that found nothing at first has returned a message after a sleep,
\* before its timeout had elapsed.
C18_Witness ==
    /\ poll.pc = "done" /\ poll.status = 200
    /\ poll.queries = 1
    /\ poll.result # <<>>
    /\ poll.elapsed < poll.timeout * TicksPerSecond

\* C19: a poll whose cursor is the largest id its client has received
\* returns only messages with a larger id: none that the client has
\* received before.
C19_NoMessageTwice ==
    [][(PollAnswers /\ poll.last_message_id = received[poll.user]) =>
         \A i \in 1..Len(poll'.result) :
           poll'.result[i].id > received[poll.user]]_vars

\* A client that had received a message has polled with its id as cursor
\* and received a later message.
C19_Witness ==
    /\ poll.pc = "done" /\ poll.result # <<>>
    /\ received[poll.user] > 0
    /\ poll.last_message_id = received[poll.user]
    /\ \E x \in messages : x.room_id = poll.room /\ x.id <= poll.last_message_id

\* C20: a poll of a caller who is no member of the room, or banned, ends at
\* its entry with a 403 before any query; a poll of a member who is not
\* banned is let in, and from then on ends only by its own query, with a
\* success, and with the messages it asks for when there are any, whatever
\* has become of the caller's membership.
C20_MembershipCheckedAtEntryOnly ==
    [][/\ (poll.pc = "idle" /\ poll'.pc # "idle") =>
            IF NoAccess(poll'.user, poll'.room)
            THEN /\ poll'.pc = "done" /\ poll'.status = 403
                 /\ poll'.queries = 0 /\ poll'.result = <<>>
            ELSE poll'.pc = "query"
       /\ (poll.pc \in {"query", "sleep"} /\ poll'.pc = "done") =>
            /\ PollAnswers
            /\ poll'.status = 200
            /\ Wanted # {} => poll'.result # <<>>
       /\ (poll.pc \in {"query", "sleep"} /\ poll' # poll) => poll'.pc # "idle"]_vars

\* A poll has returned a message to a caller who was banned, was kicked or
\* left while the poll was waiting.
C20_Witness ==
    /\ poll.pc = "done" /\ poll.status = 200
    /\ poll.queries = 1
    /\ poll.result # <<>>
    /\ NoAccess(poll.user, poll.room)

----------------------------------------------------------------------------
\* The messages of a room.
MessagesOf(room_id) == {x \in messages : x.room_id = room_id}

Min(a, b) == IF a < b THEN a ELSE b

\* C21: a plain fetch with limit L in a room of n messages returns min(L, n)
\* messages, every one a message of that room, in ascending order of
\* creation, and every message of the room it leaves out is older than
\* every message it returns.
C21_FetchReturnsMostRecentAscending ==
    [][(Responds /\ last'.op = "get_messages" /\ last'.status = 200) =>
         LET result == last'.result
             rows == MessagesOf(last'.room)
         IN  /\ Len(result) = Min(last'.limit, Cardinality(rows))
             /\ \A i \in 1..Len(result) : result[i] \in rows
             /\ \A i \in 1..Len(result), j \in 1..Len(result) :
                  i < j => /\ created_at(result[i]) < created_at(result[j])
                           /\ result[i].id < result[j].id
             /\ \A x \in rows :
                  (\A i \in 1..Len(result) : result[i] # x) =>
                    \A i \in 1..Len(result) : created_at(x) < created_at(result[i])
    ]_vars

\* A fetch with a limit below the number of messages of the room, while
\* another room has a message too, has returned the most recent ones.
C21_Witness ==
    /\ last.op = "get_messages" /\ last.status = 200
    /\ last.limit > 0
    /\ last.limit < Cardinality(MessagesOf(last.room))
    /\ Len(last.result) = last.limit
    /\ \E x \in messages : x.room_id # last.room

----------------------------------------------------------------------------
\* The characters of the model that are uppercase letters or digits.
UppercaseOrDigit == {"A", "B", "7"}

\* The codes of the rooms there are.
CodesInUse == {r.code : r \in rooms}

\* Request p leaves the generator in this step: its query found no room.
GeneratorReturns(p) ==
    /\ p.op = "create_room" /\ p.pc = "query"
    /\ CopiesIn([p EXCEPT !.pc = "insert_room"], inflight') >
         CopiesIn([p EXCEPT !.pc = "insert_room"], inflight)

\* C22: no two rooms have the same code, whatever the interleaving of the
\* create_room requests; every stored code has CodeLength characters, all
\* uppercase letters or digits; and the code the generator returns is the
\* code of no room that exists when it returns.
C22_CodesUniqueAndWellFormed ==
    /\ [](\A r1 \in rooms, r2 \in rooms : r1.code = r2.code => r1 = r2)
    /\ [](\A r \in rooms :
            /\ Len(r.code) = CodeLength
            /\ \A i \in 1..Len(r.code) : r.code[i] \in UppercaseOrDigit)
    /\ [][\A p \in InFlight : GeneratorReturns(p) => p.code \notin CodesInUse]_vars

\* Two rooms exist, and a request that left the generator with the code of
\* one of them before that room was inserted is about to insert its room.
C22_Witness ==
    /\ Cardinality(rooms) = 2
    /\ \E p \in InFlight :
         /\ p.op = "create_room" /\ p.pc = "insert_room"
         /\ p.code \in CodesInUse

----------------------------------------------------------------------------
\* C23: a client that polls with the largest id it has received skips no
\* message: every message of the room that the other sessions can see and
\* whose id is below the client's cursor has been delivered to the client.
\* (A message below the cursor is returned by no later poll of the client,
\* whose filter is id > cursor.)
C23_NoMessageSkipped ==
    \A user \in Users, room_id \in RoomIds :
      \A x \in MessagesOf(room_id) :
        x.id < CursorOf(user, room_id) => x \in delivered[user]

----------------------------------------------------------------------------
\* The requests that update or delete a record by its id.
RecordOps ==
    {"update_task", "delete_task", "update_shopping_item", "delete_shopping_item",
     "update_cleaning_schedule", "delete_cleaning_schedule"}

\* The table a request of RecordOps addresses.
TableOf(op) ==
    IF op \in TaskOps THEN tasks
    ELSE IF op \in ShoppingOps THEN shopping_items
    ELSE cleaning_schedule

\* Every row of `after` with the id of a row of `before` is in the same room.
SameRooms(before, after) ==
    \A x \in before, y \in after : x.id = y.id => x.room_id = y.room_id

\* C24: an update or delete of a task, shopping item or cleaning schedule
\* through the route of one room, with the id of a record of another room,
\* ends with 404 not found (or with the 403 of the guard when the caller has
\* no access to the room of the route) and changes no table, whatever the
\* caller's role; no step changes the room of a record; and a request to a
\* room by a caller with no unbanned membership in that very room is denied
\* with a 403 and changes nothing, whatever the caller is in the other room.
C24_RoomsIsolated ==
    /\ [][(Responds /\ last'.op \in RecordOps) =>
            \A x \in TableOf(last'.op) :
              (x.id = last'.target /\ x.room_id # last'.room) =>
                /\ last'.status = IF NoAccess(last'.user, last'.room) THEN 403 ELSE 404
                /\ store' = store]_vars
    /\ [][/\ SameRooms(tasks, tasks')
          /\ SameRooms(shopping_items, shopping_items')
          /\ SameRooms(cleaning_schedule, cleaning_schedule')]_vars
    /\ [][(Responds /\ NoAccess(last'.user, last'.room)) =>
            /\ last'.status = 403
            /\ store' = store]_vars

\* The owner of a room has asked, through the route of that room, for the
\* update or delete of a record of the other room, where the owner is no
\* member, and was answered 404; the record is there.
C24_Witness ==
    /\ last.op \in RecordOps
    /\ last.status = 404
    /\ Owns(last.user, last.room)
    /\ \E x \in TableOf(last.op) :
         /\ x.id = last.target
         /\ x.room_id # last.room
         /\ MemberRows(last.user, x.room_id) = {}

----------------------------------------------------------------------------
\* A request is in the loop of the generator.
InGenerator == \E p \in InFlight : p.op = "create_room" /\ p.pc \in {"draw", "query"}

\* A request has left the generator with a code.
LeftGenerator == \E p \in InFlight : p.op = "create_room" /\ p.pc = "insert_room"

\* C25: a collision in the generator is followed by another draw, with no
\* response and no change of a table; a request in the generator leaves it
\* with a code while a code of the code space is unused, the draws being
\* fair; and when every code is the code of a room, the request stays in
\* the generator for ever and no response is made.
C25_GeneratorRetriesUntilUnused ==
    /\ [][\A p \in InFlight :
            (/\ p.op = "create_room" /\ p.pc = "query"
             /\ p.code \in CodesInUse
             /\ inflight' # inflight) =>
              /\ [p EXCEPT !.pc = "draw"] \in BagToSet(inflight')
              /\ last' = last
              /\ store' = store]_vars
    /\ (InGenerator /\ generate_room_code # {}) ~> LeftGenerator
    /\ []((InGenerator /\ generate_room_code = {}) => [](InGenerator /\ returned))

\* A request in the generator has drawn the code of a room and is about to
\* draw again, while a code of the code space is unused.
C25_Witness ==
    /\ generate_room_code # {}
    /\ \E p \in InFlight :
         /\ p.op = "create_room" /\ p.pc = "draw"
         /\ p.code \in CodesInUse

====
